---- MODULE Spec2Model ----
(***************************************************************************)
(* A model of the dbuf double buffer: the two-cell payload, the            *)
(* synchronization strategies (simple, atomic, evmap, flashmap, hazard     *)
(* flash) and the operation-log writer.  Every strategy is modelled as its *)
(* own state machine over its own variables; a specification of one        *)
(* strategy leaves the variables of the others unchanged.  Atomic          *)
(* operations of the code are single steps; a function made of several     *)
(* atomic operations is several steps joined by a program counter.         *)
(***************************************************************************)
EXTENDS Integers, Sequences, FiniteSets, TLC

(***************************************************************************)
(* Bounds of the model.                                                    *)
(***************************************************************************)
\* reader handles (threads) per strategy
NumReaders == 2

Readers == 1..NumReaders

(***************************************************************************)
(* raw.rs: the payload.  DoubleBufferCell::get(swapped) returns            *)
(* (parts[!swapped], parts[swapped]) as (read, write).                     *)
(***************************************************************************)
\* `b as usize`
Idx(b) == IF b THEN 1 ELSE 0

\* DoubleBufferCell::get
BufGet(swapped) == [read |-> Idx(~swapped), write |-> Idx(swapped)]

\* A reader handle without a guard
NoGuard == [held |-> FALSE, swapped |-> FALSE, cell |-> 0]

VARIABLES
    \* SimpleStrategy (strategy/simple.rs) behind a raw Writer and Readers
    si_num_readers,     \* num_readers: [Cell<u32>; 2]
    si_swapped,         \* swapped: Cell<bool>
    si_parts,           \* DoubleBufferCell.parts
    si_guard,           \* per reader handle: the ReaderGuard it holds
    si_last             \* history: the outcome of the last Writer::try_swap

VARIABLES
    \* AtomicStrategy (strategy/atomic.rs), one writer thread and reader threads
    at_which,           \* which: AtomicBool
    at_num_readers,     \* num_readers: [AtomicU64; 2]
    at_swap,            \* the writer's Swap from try_start_swap, if any
    at_wpc,             \* the writer's position inside is_swap_finished
    at_rpc,             \* per reader: its position in try_read / acquire_read_guard
    at_rloc,            \* per reader: the locals swapped, num_readers of acquire_read_guard
    at_guard,           \* per reader: the ReaderGuard it holds
    at_hist             \* history: results of is_swap_finished, retries of acquire

VARIABLES
    \* EvMapStrategy (strategy/evmap.rs), one writer thread and reader handles
    ev_flags,           \* flags: AtomicU8, as its two bits IS_SWAPPED, HAS_NEW_EPOCHS
    ev_epochs,          \* epochs: Vec<Arc<Epoch>>, the writer's list (reader ids)
    ev_new,             \* new_epochs_from_reader: Mutex<Vec<Arc<Epoch>>>
    ev_current,         \* per reader: Epoch.current
    ev_last,            \* per reader: Epoch.last
    ev_handle,          \* per reader: "none", "alive" or "dropped" (the Arc is unique)
    ev_rpc,             \* per reader: its position in acquire_read_guard
    ev_guard,           \* per reader: the ReaderGuard it holds
    ev_swap,            \* the writer's Swap {start, end}, if any
    ev_wpc,             \* the writer's position in try_start_swap / is_swap_finished
    ev_wi,              \* the writer's loop index
    ev_pre,             \* history, per reader: it held a guard when the swap started
    ev_hist             \* history: results of is_swap_finished

VARIABLES
    \* FlashStrategy (strategy/flashmap.rs), one writer thread and reader handles
    fl_swap_state,      \* swap_state: AtomicUsize
    fl_readers,         \* readers: Mutex<Vec<Arc<AtomicUsize>>> (reader ids)
    fl_word,            \* per reader: the value of its Arc<AtomicUsize>
    fl_handle,          \* per reader: "none", "alive" or "dropped" (the Arc is unique)
    fl_residual,        \* residual: AtomicIsize
    fl_parker,          \* parker: ThreadParkToken, "none" or "set"
    fl_permit,          \* the writer thread's unpark token
    fl_rpc,             \* per reader: its position in acquire / release
    fl_rloc,            \* per reader: the local swap_state / reader_swap_state
    fl_guard,           \* per reader: the ReaderGuard it holds
    fl_swap,            \* the writer's Swap {residual}, if any
    fl_wpc,             \* the writer's position in try_start_swap / finish_swap
    fl_wi,              \* the writer's index in the retain scan
    fl_wloc,            \* the writer's locals
    fl_nswaps,          \* number of swaps started
    fl_pre,             \* history, per reader: it held a guard when the swap started
    fl_obs              \* history: the last result of is_swap_finished

VARIABLES
    \* HazardFlashStrategy (strategy/hazad_flash.rs) over Hazard<AtomicUsize, 4>
    hf_swap_state,      \* swap_state: AtomicUsize
    hf_nchunks,         \* number of chunks in the Hazard list
    hf_locked,          \* per node: HazardNode.is_locked
    hf_value,           \* per node: HazardNode.value, the reader word
    hf_handle,          \* per reader: ReaderId.id, the tagged RawHazardGuard
    hf_residual,        \* residual: AtomicIsize
    hf_parker,          \* parker: ThreadParkToken, "none" or "set"
    hf_permit,          \* the writer thread's unpark token
    hf_rpc,             \* per reader: its position in acquire / release
    hf_rloc,            \* per reader: release_read_guard must wake the writer
    hf_gstate,          \* per reader: ReadGuard.swap_state
    hf_guard,           \* per reader: the ReaderGuard it holds
    hf_first,           \* history, per reader: no read was finished since its creation
    hf_swap,            \* the writer's Swap, if any
    hf_wpc,             \* the writer's position in try_start_swap / finish_swap
    hf_wi,              \* the writer's position in the scan of the nodes
    hf_wloc,            \* the writer's locals
    hf_nswaps,          \* number of swaps started
    hf_pre              \* history, per reader: it held a guard when the swap started

VARIABLES
    \* OpWriter (op.rs) over a DelayWriter, with two hash tables as buffers
    op_cells,           \* DoubleBufferCell.parts: two tables, key -> value or 0
    op_swapped,         \* the strategy's swap state
    op_swap,            \* DelayWriter.swap is Some
    op_log,             \* OpWriter.op_log
    op_water_line,      \* OpWriter.water_line
    op_wpc,             \* writer position inside OpWriter::swap_buffers
    op_guard,           \* per reader handle: the ReaderGuard it holds
    op_seen,            \* history: what the reader last saw through its guard
    op_pushed,          \* history: every operation pushed, in push order
    op_marks,           \* history: Len(op_pushed) at each swap_buffers call
    op_stat,            \* history: per pushed operation, its applications
    op_nswaps           \* history: completed swap_buffers calls

VARIABLES
    \* DelayWriter (delay.rs) over the EvMapStrategy, with values in the buffers
    ed_parts,           \* DoubleBufferCell.parts
    ed_writes,          \* history: writes made through get_writer_mut
    ed_shown,           \* history: the value on the read side when the last swap was started
    ed_prev             \* history: the value on the read side before that swap

VARIABLES
    \* EvMapStrategy's parker (strategy/atomic/park_token.rs) and the writer waiting on it
    ep_park,            \* where the writer is in finish_swap / in the afinish_swap future
    ep_notified,        \* ThreadParkToken: the waiting writer was notified
    ep_waker            \* AsyncParkToken: a waker is registered

VARIABLES
    \* DelayWriter over FlashStrategy (delay.rs)
    fd_starts,          \* calls of start_swap so far
    fd_quiet,           \* the last swap was started while every reader was idle
    fd_got,             \* what the last get_writer_mut returned, and whether a guard from before the swap pinned the write cell
    fd_cancelled        \* an afinish_swap future of the stored swap was dropped while pending

VARIABLES
    \* Writer::swap on a buffer over Flash or over EvMap (raw/writer.rs)
    sw_strategy,        \* the strategy the buffer was built with
    sw_parts,           \* DoubleBufferCell::parts
    sw_run,             \* swap() calls since the last write
    sw_base,            \* what split() gave before those swaps
    sw_blocked          \* a swap() call did not return

VARIABLES
    \* OpWriter::aswap_buffers (op.rs 61-70)
    oc_cancels          \* aswap_buffers futures dropped while pending

VARIABLES
    \* the Hazard pool on its own (strategy/hazad_flash/hazard.rs)
    hz_head,            \* Hazard.head: the newest chunk, 0 is null
    hz_next,            \* HazardNodeChunk.next of every chunk, 0 is null
    hz_nalloc,          \* chunks allocated so far
    hz_locked,          \* HazardNode.is_locked of every node
    hz_guard,           \* the RawHazardGuard of each thread: node (0: no guard) and tag bit
    hz_pc,              \* where each thread is in get_or_insert_with
    hz_cur,             \* find_map: the node the iterator of the thread is at, 0 at the end
    hz_chunk,           \* insert_with: the chunk the thread allocated
    hz_prev,            \* fetch_update: the head the thread compares against
    hz_inserted,        \* history: the chunks whose fetch_update returned
    hz_raced            \* history: a compare-exchange on head failed

VARIABLES
    \* leaked read guards over FlashStrategy and EvMapStrategy
    lk_strategy,        \* the strategy under the readers, "none" before it is chosen
    lk_out,             \* per reader id: guards handed out on top of a leaked one, the leaked one included
    lk_panics           \* history: acquire_read_guard panicked

VARIABLES
    \* AtomicStrategy with its try_start_swap calls counted
    ac_starts           \* history: try_start_swap calls that returned Ok

VARIABLES
    \* Reader::try_read over Arc / Weak (ext/std_arc.rs)
    wk_strong,          \* strong count of the Arc<DoubleBufferData>
    wk_writer,          \* the Writer (its Arc) is alive
    wk_swapped,         \* the strategy: parity of the swaps
    wk_epoch,           \* the strategy: per reader id, acquires and releases counted
    wk_rpc,             \* per reader: idle or held (a ReaderGuard with its upgraded Arc)
    wk_last,            \* history: what the last try_read of the reader returned
    wk_calls            \* history: try_read calls of the reader

VARIABLES
    \* try_start_swap called again before the swap was finished (flashmap.rs)
    ds_calls,           \* calls of try_start_swap since the last finished swap
    ds_first,           \* swap_state before the first of these calls
    ds_old              \* readers whose guard was held at every one of these calls

VARIABLES
    \* AtomicStrategy<ThreadParkToken>::finish_swap (atomic.rs, atomic/park_token.rs)
    ap_parked           \* the writer is blocked in Condvar::wait inside park_until

VARIABLES
    \* vec_drain::drain_unti inside op.rs swap_buffers
    dr_pc,              \* none, iter (a Drain exists), dropped, or panicked (index out of range)
    dr_mem,             \* the vector's buffer, cell by cell
    dr_len,             \* the vector's len
    dr_ptr,             \* Drain.ptr as an index into the buffer, from 1
    dr_end,             \* Drain.end, likewise
    dr_old_len,         \* Drain.old_len
    dr_copy,            \* swap_buffers' copy of the water line (SetOnDrop.0)
    dr_out,             \* the items yielded so far
    dr_orig,            \* the vector drain_unti was called on
    dr_n                \* the n drain_unti was called with

si_vars == <<si_num_readers, si_swapped, si_parts, si_guard, si_last>>
at_vars == <<at_which, at_num_readers, at_swap, at_wpc, at_rpc, at_rloc, at_guard, at_hist>>
ev_vars == <<ev_flags, ev_epochs, ev_new, ev_current, ev_last, ev_handle, ev_rpc,
             ev_guard, ev_swap, ev_wpc, ev_wi, ev_pre, ev_hist>>
fl_vars == <<fl_swap_state, fl_readers, fl_word, fl_handle, fl_residual, fl_parker,
             fl_permit, fl_rpc, fl_rloc, fl_guard, fl_swap, fl_wpc, fl_wi, fl_wloc,
             fl_nswaps, fl_pre, fl_obs>>
hf_vars == <<hf_swap_state, hf_nchunks, hf_locked, hf_value, hf_handle, hf_residual,
             hf_parker, hf_permit, hf_rpc, hf_rloc, hf_gstate, hf_guard, hf_first,
             hf_swap, hf_wpc, hf_wi, hf_wloc, hf_nswaps, hf_pre>>

op_vars == <<op_cells, op_swapped, op_swap, op_log, op_water_line, op_wpc, op_guard,
            op_seen, op_pushed, op_marks, op_stat, op_nswaps>>
ed_vars == <<ed_parts, ed_writes, ed_shown, ed_prev>>
ep_vars == <<ep_park, ep_notified, ep_waker>>
fd_vars == <<fd_starts, fd_quiet, fd_got, fd_cancelled>>
sw_vars == <<sw_strategy, sw_parts, sw_run, sw_base, sw_blocked>>
oc_vars == <<oc_cancels>>
hz_vars == <<hz_head, hz_next, hz_nalloc, hz_locked, hz_guard, hz_pc, hz_cur, hz_chunk, hz_prev, hz_inserted, hz_raced>>
lk_vars == <<lk_strategy, lk_out, lk_panics>>
ac_vars == <<ac_starts>>
wk_vars == <<wk_strong, wk_writer, wk_swapped, wk_epoch, wk_rpc, wk_last, wk_calls>>
ds_vars == <<ds_calls, ds_first, ds_old>>
ap_vars == <<ap_parked>>
dr_vars == <<dr_pc, dr_mem, dr_len, dr_ptr, dr_end, dr_old_len, dr_copy, dr_out, dr_orig, dr_n>>
vars == <<si_vars, at_vars, ev_vars, fl_vars, hf_vars, op_vars, ed_vars, ep_vars, fd_vars, sw_vars, oc_vars, hz_vars, lk_vars, ac_vars, wk_vars, ds_vars, ap_vars, dr_vars>>

\* the variables a strategy's specification leaves alone
NotSimple == <<at_vars, ev_vars, fl_vars, hf_vars, op_vars, ed_vars, ep_vars, fd_vars, sw_vars, oc_vars, hz_vars, lk_vars, ac_vars, wk_vars, ds_vars, ap_vars, dr_vars>>
NotAtomic == <<si_vars, ev_vars, fl_vars, hf_vars, op_vars, ed_vars, ep_vars, fd_vars, sw_vars, oc_vars, hz_vars, lk_vars, ac_vars, wk_vars, ds_vars, ap_vars, dr_vars>>
NotEvMap == <<si_vars, at_vars, fl_vars, hf_vars, op_vars, ed_vars, ep_vars, fd_vars, sw_vars, oc_vars, hz_vars, lk_vars, ac_vars, wk_vars, ds_vars, ap_vars, dr_vars>>
NotFlash == <<si_vars, at_vars, ev_vars, hf_vars, op_vars, ed_vars, ep_vars, fd_vars, sw_vars, oc_vars, hz_vars, lk_vars, ac_vars, wk_vars, ds_vars, ap_vars, dr_vars>>
NotHazardFlash == <<si_vars, at_vars, ev_vars, fl_vars, op_vars, ed_vars, ep_vars, fd_vars, sw_vars, oc_vars, hz_vars, lk_vars, ac_vars, wk_vars, ds_vars, ap_vars, dr_vars>>
NotOp == <<si_vars, at_vars, ev_vars, fl_vars, hf_vars, ed_vars, ep_vars, fd_vars, sw_vars, oc_vars, hz_vars, lk_vars, ac_vars, wk_vars, ds_vars, ap_vars, dr_vars>>
NotEvMapDelay == <<si_vars, at_vars, fl_vars, hf_vars, op_vars, ep_vars, fd_vars, sw_vars, oc_vars, hz_vars, lk_vars, ac_vars, wk_vars, ds_vars, ap_vars, dr_vars>>
NotEvMapPark == <<si_vars, at_vars, fl_vars, hf_vars, op_vars, ed_vars, fd_vars, sw_vars, oc_vars, hz_vars, lk_vars, ac_vars, wk_vars, ds_vars, ap_vars, dr_vars>>
NotFlashDelay == <<si_vars, at_vars, ev_vars, hf_vars, op_vars, ed_vars, ep_vars, sw_vars, oc_vars, hz_vars, lk_vars, ac_vars, wk_vars, ds_vars, ap_vars, dr_vars>>
NotSwap == <<si_vars, at_vars, hf_vars, op_vars, ed_vars, ep_vars, fd_vars, oc_vars, hz_vars, lk_vars, ac_vars, wk_vars, ds_vars, ap_vars, dr_vars>>
NotOpAsync == <<si_vars, at_vars, ev_vars, fl_vars, hf_vars, ed_vars, ep_vars, fd_vars, sw_vars, hz_vars, lk_vars, ac_vars, wk_vars, ds_vars, ap_vars, dr_vars>>
NotHazard == <<si_vars, at_vars, ev_vars, fl_vars, hf_vars, op_vars, ed_vars, ep_vars, fd_vars, sw_vars, oc_vars, lk_vars, ac_vars, wk_vars, ds_vars, ap_vars, dr_vars>>
NotLeak == <<si_vars, at_vars, ev_vars, fl_vars, hf_vars, op_vars, ed_vars, ep_vars, fd_vars, sw_vars, oc_vars, hz_vars, ac_vars, wk_vars, ds_vars, ap_vars, dr_vars>>
NotLeakFlash == <<si_vars, at_vars, ev_vars, hf_vars, op_vars, ed_vars, ep_vars, fd_vars, sw_vars, oc_vars, hz_vars, ac_vars, wk_vars, ds_vars, ap_vars, dr_vars>>
NotLeakEvMap == <<si_vars, at_vars, fl_vars, hf_vars, op_vars, ed_vars, ep_vars, fd_vars, sw_vars, oc_vars, hz_vars, ac_vars, wk_vars, ds_vars, ap_vars, dr_vars>>
NotAtomicCount == <<si_vars, ev_vars, fl_vars, hf_vars, op_vars, ed_vars, ep_vars, fd_vars, sw_vars, oc_vars, hz_vars, lk_vars, wk_vars, ds_vars, ap_vars, dr_vars>>
NotWeak == <<si_vars, at_vars, ev_vars, fl_vars, hf_vars, op_vars, ed_vars, ep_vars, fd_vars, sw_vars, oc_vars, hz_vars, lk_vars, ac_vars, ds_vars, ap_vars, dr_vars>>
NotDouble == <<si_vars, at_vars, ev_vars, hf_vars, op_vars, ed_vars, ep_vars, fd_vars, sw_vars, oc_vars, hz_vars, lk_vars, ac_vars, wk_vars, ap_vars, dr_vars>>
NotAtomicPark == <<si_vars, ev_vars, fl_vars, hf_vars, op_vars, ed_vars, ep_vars, fd_vars, sw_vars, oc_vars, hz_vars, lk_vars, ac_vars, wk_vars, ds_vars, dr_vars>>
NotDrain == <<si_vars, at_vars, ev_vars, fl_vars, hf_vars, op_vars, ed_vars, ep_vars, fd_vars, sw_vars, oc_vars, hz_vars, lk_vars, ac_vars, wk_vars, ds_vars, ap_vars>>

(***************************************************************************)
(* SimpleStrategy (single threaded)                                        *)
(***************************************************************************)
\* values a writer stores through get_mut
SiVals == {3, 4}

\* DoubleBufferData::new(10, 300, SimpleStrategy::new()): parts = [front, back]
SimpleInit ==
    /\ si_num_readers = [i \in 0..1 |-> 0]
    /\ si_swapped = FALSE
    /\ si_parts = [i \in 0..1 |-> IF i = 0 THEN 300 ELSE 10]
    /\ si_guard = [r \in Readers |-> NoGuard]
    /\ si_last = [res |-> "none", pinned |-> FALSE, same |-> TRUE, exchanged |-> FALSE]

\* SimpleStrategy::acquire_read_guard: the counter the new guard is counted in
SimpleAcquireSlot(swapped) == Idx(swapped)

\* SimpleStrategy::try_start_swap: Err iff the counter of next_swap is non-zero
SimpleSwapRefused(num_readers, swapped) == num_readers[Idx(~swapped)] # 0

\* Reader::try_read: acquire_read_guard, is_swapped, buffers.get(swapped).0
SimpleRead(r) ==
    /\ ~si_guard[r].held
    /\ LET slot == SimpleAcquireSlot(si_swapped)
       IN /\ si_num_readers' = [si_num_readers EXCEPT ![slot] = @ + 1]
          /\ si_guard' = [si_guard EXCEPT ![r] =
                 [held |-> TRUE, swapped |-> si_swapped,
                  cell |-> BufGet(si_swapped).read]]
    /\ UNCHANGED <<si_swapped, si_parts, si_last>>
    /\ UNCHANGED NotSimple

\* drop(ReaderGuard): release_read_guard
SimpleDropGuard(r) ==
    /\ si_guard[r].held
    /\ si_num_readers' = [si_num_readers EXCEPT ![Idx(si_guard[r].swapped)] = @ - 1]
    /\ si_guard' = [si_guard EXCEPT ![r] = NoGuard]
    /\ UNCHANGED <<si_swapped, si_parts, si_last>>
    /\ UNCHANGED NotSimple

\* some guard pins the cell a swap would hand to the writer
SimpleReadSidePinned ==
    \E r \in Readers : si_guard[r].held /\ si_guard[r].cell = BufGet(si_swapped).read

\* Writer::try_swap: try_start_swap, then finish_swap (a no-op)
SimpleTrySwap ==
    /\ LET refused == SimpleSwapRefused(si_num_readers, si_swapped)
       IN /\ si_swapped' = IF refused THEN si_swapped ELSE ~si_swapped
          /\ si_last' = [res |-> IF refused THEN "err" ELSE "ok",
                         pinned |-> SimpleReadSidePinned,
                         same |-> si_swapped' = si_swapped,
                         exchanged |-> BufGet(si_swapped').write = BufGet(si_swapped).read]
    /\ UNCHANGED <<si_num_readers, si_parts, si_guard>>
    /\ UNCHANGED NotSimple

\* *writer.get_mut() = v
SimpleWrite(v) ==
    /\ si_parts' = [si_parts EXCEPT ![BufGet(si_swapped).write] = v]
    /\ UNCHANGED <<si_num_readers, si_swapped, si_guard, si_last>>
    /\ UNCHANGED NotSimple

SimpleNext ==
    \/ \E r \in Readers : SimpleRead(r)
    \/ \E r \in Readers : SimpleDropGuard(r)
    \/ SimpleTrySwap
    \/ \E v \in SiVals : SimpleWrite(v)

\* C4: SimpleStrategy: while a read guard is outstanding on the read-side cell
\* try_swap returns Err and leaves the orientation unchanged; with no such guard
\* it returns Ok and exchanges the two cells.
SimpleSwapErrWhilePinned ==
    si_last.res # "none" =>
        /\ si_last.pinned => (si_last.res = "err" /\ si_last.same)
        /\ ~si_last.pinned => (si_last.res = "ok" /\ si_last.exchanged)

(***************************************************************************)
(* AtomicStrategy (strategy/atomic.rs).  Every atomic operation is a step. *)
(* The u64 counters are kept modulo 2^64 with u64::MAX written as -1, so   *)
(* that fetch_sub wraps and checked_add(1) fails exactly on u64::MAX.      *)
(***************************************************************************)
\* u64::MAX, the value is_swap_finished locks a counter with
U64_MAX == -1

AtNoLocals == [swapped |-> FALSE, n |-> 0]

AtomicInit ==
    /\ at_which = FALSE
    /\ at_num_readers = [i \in 0..1 |-> 0]
    /\ at_swap = [active |-> FALSE, next |-> FALSE]
    /\ at_wpc = "idle"
    /\ at_rpc = [r \in Readers |-> "idle"]
    /\ at_rloc = [r \in Readers |-> AtNoLocals]
    /\ at_guard = [r \in Readers |-> NoGuard]
    /\ at_hist = [refused |-> FALSE, finished |-> FALSE, undone |-> FALSE]

\* u64::checked_add(1)
AtomicCheckedAddFails(n) == n = U64_MAX

\* C5 mutant: acquire_read_guard without the second look at `which`
AtomicRecheckSkipped(current_swapped, swapped) == TRUE

\* acquire_read_guard, after a successful compare_exchange_weak:
\* `current_swapped == swapped`
AtomicRecheckOk(current_swapped, swapped) == current_swapped = swapped

\* try_start_swap: next_swap = !is_swapped_writer(); no shared state changes
AtomicTryStartSwap ==
    /\ at_wpc = "idle" /\ ~at_swap.active
    /\ at_swap' = [active |-> TRUE, next |-> ~at_which]
    /\ UNCHANGED <<at_which, at_num_readers, at_wpc, at_rpc, at_rloc, at_guard, at_hist>>
    /\ UNCHANGED NotAtomic

\* is_swap_finished: compare_exchange(0, u64::MAX) on num_readers[next_swap]
AtomicLockReaders ==
    /\ at_wpc = "idle" /\ at_swap.active
    /\ LET i == Idx(at_swap.next)
       IN IF at_num_readers[i] = 0
          THEN /\ at_num_readers' = [at_num_readers EXCEPT ![i] = U64_MAX]
               /\ at_wpc' = "locked"
               /\ UNCHANGED at_hist
          ELSE /\ at_hist' = [at_hist EXCEPT !.refused = TRUE]
               /\ UNCHANGED <<at_num_readers, at_wpc>>
    /\ UNCHANGED <<at_which, at_swap, at_rpc, at_rloc, at_guard>>
    /\ UNCHANGED NotAtomic

\* is_swap_finished: self.which.store(next_swap)
AtomicStoreWhich ==
    /\ at_wpc = "locked"
    /\ at_which' = at_swap.next
    /\ at_wpc' = "stored"
    /\ UNCHANGED <<at_num_readers, at_swap, at_rpc, at_rloc, at_guard, at_hist>>
    /\ UNCHANGED NotAtomic

\* is_swap_finished: num_readers.store(0); true
AtomicUnlockReaders ==
    /\ at_wpc = "stored"
    /\ at_num_readers' = [at_num_readers EXCEPT ![Idx(at_swap.next)] = 0]
    /\ at_wpc' = "idle"
    /\ at_swap' = [active |-> FALSE, next |-> FALSE]
    /\ at_hist' = [at_hist EXCEPT !.finished = TRUE]
    /\ UNCHANGED <<at_which, at_rpc, at_rloc, at_guard>>
    /\ UNCHANGED NotAtomic

\* acquire_read_guard: swapped = !self.which.load()
AtomicLoadWhich(r) ==
    /\ at_rpc[r] = "idle"
    /\ at_rloc' = [at_rloc EXCEPT ![r] = [swapped |-> ~at_which, n |-> 0]]
    /\ at_rpc' = [at_rpc EXCEPT ![r] = "count"]
    /\ UNCHANGED <<at_which, at_num_readers, at_swap, at_wpc, at_guard, at_hist>>
    /\ UNCHANGED NotAtomic

\* acquire_read_guard: num_readers = reader_count.load()
AtomicLoadCount(r) ==
    /\ at_rpc[r] = "count"
    /\ at_rloc' = [at_rloc EXCEPT ![r].n = at_num_readers[Idx(at_rloc[r].swapped)]]
    /\ at_rpc' = [at_rpc EXCEPT ![r] = "loop"]
    /\ UNCHANGED <<at_which, at_num_readers, at_swap, at_wpc, at_guard, at_hist>>
    /\ UNCHANGED NotAtomic

\* acquire_read_guard, one turn of the loop: checked_add fails and the locals
\* are refreshed (which first, the count in the next step), or
\* compare_exchange_weak(num_readers, num_readers + 1)
AtomicLoopStep(r) ==
    /\ at_rpc[r] = "loop"
    /\ LET l == at_rloc[r]
           i == Idx(l.swapped)
       IN IF AtomicCheckedAddFails(l.n)
          THEN /\ at_rloc' = [at_rloc EXCEPT ![r].swapped = ~at_which]
               /\ at_rpc' = [at_rpc EXCEPT ![r] = "count"]
               /\ UNCHANGED at_num_readers
          ELSE IF at_num_readers[i] = l.n
          THEN /\ at_num_readers' = [at_num_readers EXCEPT ![i] = l.n + 1]
               /\ at_rpc' = [at_rpc EXCEPT ![r] = "recheck"]
               /\ UNCHANGED at_rloc
          ELSE /\ at_rloc' = [at_rloc EXCEPT ![r].n = at_num_readers[i]]
               /\ UNCHANGED <<at_num_readers, at_rpc>>
    /\ UNCHANGED <<at_which, at_swap, at_wpc, at_guard, at_hist>>
    /\ UNCHANGED NotAtomic

\* acquire_read_guard, after the compare_exchange succeeded: load which again and
\* return the guard if it did not change
AtomicRecheck(r) ==
    /\ at_rpc[r] = "recheck"
    /\ IF AtomicRecheckOk(~at_which, at_rloc[r].swapped)
       THEN /\ at_guard' = [at_guard EXCEPT ![r] =
                    [held |-> TRUE, swapped |-> at_rloc[r].swapped, cell |-> 0]]
            /\ at_rpc' = [at_rpc EXCEPT ![r] = "got"]
       ELSE /\ at_rpc' = [at_rpc EXCEPT ![r] = "undo"]
            /\ UNCHANGED at_guard
    /\ UNCHANGED <<at_which, at_num_readers, at_swap, at_wpc, at_rloc, at_hist>>
    /\ UNCHANGED NotAtomic

\* acquire_read_guard: reader_count.fetch_sub(1), then loop with the old locals
AtomicUndo(r) ==
    /\ at_rpc[r] = "undo"
    /\ at_num_readers' = [at_num_readers EXCEPT ![Idx(at_rloc[r].swapped)] = @ - 1]
    /\ at_rpc' = [at_rpc EXCEPT ![r] = "loop"]
    /\ at_hist' = [at_hist EXCEPT !.undone = TRUE]
    /\ UNCHANGED <<at_which, at_swap, at_wpc, at_rloc, at_guard>>
    /\ UNCHANGED NotAtomic

\* Reader::try_read after acquire_read_guard: is_swapped loads which, and the
\* guard borrows buffers.get(swapped).0
AtomicIsSwapped(r) ==
    /\ at_rpc[r] = "got"
    /\ at_guard' = [at_guard EXCEPT ![r].cell = BufGet(at_which).read]
    /\ at_rpc' = [at_rpc EXCEPT ![r] = "held"]
    /\ at_rloc' = [at_rloc EXCEPT ![r] = AtNoLocals]
    /\ UNCHANGED <<at_which, at_num_readers, at_swap, at_wpc, at_hist>>
    /\ UNCHANGED NotAtomic

\* drop(ReaderGuard): release_read_guard, fetch_sub(1) on num_readers[guard]
AtomicRelease(r) ==
    /\ at_rpc[r] = "held"
    /\ at_num_readers' = [at_num_readers EXCEPT ![Idx(at_guard[r].swapped)] = @ - 1]
    /\ at_guard' = [at_guard EXCEPT ![r] = NoGuard]
    /\ at_rpc' = [at_rpc EXCEPT ![r] = "idle"]
    /\ UNCHANGED <<at_which, at_swap, at_wpc, at_rloc, at_hist>>
    /\ UNCHANGED NotAtomic

AtomicNext ==
    \/ AtomicTryStartSwap
    \/ AtomicLockReaders
    \/ AtomicStoreWhich
    \/ AtomicUnlockReaders
    \/ \E r \in Readers : AtomicLoadWhich(r)
    \/ \E r \in Readers : AtomicLoadCount(r)
    \/ \E r \in Readers : AtomicLoopStep(r)
    \/ \E r \in Readers : AtomicRecheck(r)
    \/ \E r \in Readers : AtomicUndo(r)
    \/ \E r \in Readers : AtomicIsSwapped(r)
    \/ \E r \in Readers : AtomicRelease(r)

\* the cell the writer has exclusive access to: parts[which]
AtomicWriteCell == BufGet(at_which).write

EvMaxEpoch == 4

EvNoSwap == [active |-> FALSE, start |-> 0, end |-> 0]

EvMapInit ==
    /\ ev_flags = [swapped |-> FALSE, has_new |-> FALSE]
    /\ ev_epochs = <<>>
    /\ ev_new = <<>>
    /\ ev_current = [r \in Readers |-> 0]
    /\ ev_last = [r \in Readers |-> 0]
    /\ ev_handle = [r \in Readers |-> "none"]
    /\ ev_rpc = [r \in Readers |-> "idle"]
    /\ ev_guard = [r \in Readers |-> NoGuard]
    /\ ev_swap = EvNoSwap
    /\ ev_wpc = "idle"
    /\ ev_wi = 0
    /\ ev_pre = [r \in Readers |-> FALSE]
    /\ ev_hist = [refused |-> FALSE, finished |-> FALSE]

\* C1 mutant: every reader is taken as not reading at the start of the swap
EvMapSkipAll(last_epoch) == TRUE

\* is_swap_finished: `last_epoch % 2 == 0`, the reader wasn't reading at the
\* start of the swap
EvMapNotReading(last_epoch) == last_epoch % 2 = 0

\* a reader found reading at the start of the swap is taken to have left
EvMapNeverStill(now, last_epoch) == FALSE

\* is_swap_finished: `now == last_epoch`, the reader is still in the same read
EvMapStillReading(now, last_epoch) == now = last_epoch

\* create_reader_id_from_writer (Writer::reader): push a fresh Epoch on epochs
EvMapCreateFromWriter(r) ==
    /\ ev_wpc = "idle" /\ ev_handle[r] = "none"
    /\ ev_handle' = [ev_handle EXCEPT ![r] = "alive"]
    /\ ev_epochs' = Append(ev_epochs, r)
    /\ ev_current' = [ev_current EXCEPT ![r] = 0]
    /\ ev_last' = [ev_last EXCEPT ![r] = 0]
    /\ UNCHANGED <<ev_flags, ev_new, ev_rpc, ev_guard, ev_swap, ev_wpc, ev_wi, ev_pre, ev_hist>>
    /\ UNCHANGED NotEvMap

\* a clone that pushes its Epoch without setting HAS_NEW_EPOCHS
EvMapCreateNoFlag(r, n) ==
    /\ ev_handle[r] = "alive" /\ ev_rpc[r] = "idle" /\ ev_handle[n] = "none"
    /\ ev_handle' = [ev_handle EXCEPT ![n] = "alive"]
    /\ ev_new' = Append(ev_new, n)
    /\ ev_current' = [ev_current EXCEPT ![n] = 0]
    /\ ev_last' = [ev_last EXCEPT ![n] = 0]
    /\ UNCHANGED <<ev_flags, ev_epochs, ev_rpc, ev_guard, ev_swap, ev_wpc, ev_wi, ev_pre,
                   ev_hist>>
    /\ UNCHANGED NotEvMap

\* create_reader_id_from_reader (Reader::clone): under the mutex, set
\* HAS_NEW_EPOCHS and push a fresh Epoch on new_epochs_from_reader
EvMapCreateFromReader(r, n) ==
    /\ ev_handle[r] = "alive" /\ ev_rpc[r] = "idle" /\ ev_handle[n] = "none"
    /\ ev_handle' = [ev_handle EXCEPT ![n] = "alive"]
    /\ ev_flags' = [ev_flags EXCEPT !.has_new = TRUE]
    /\ ev_new' = Append(ev_new, n)
    /\ ev_current' = [ev_current EXCEPT ![n] = 0]
    /\ ev_last' = [ev_last EXCEPT ![n] = 0]
    /\ UNCHANGED <<ev_epochs, ev_rpc, ev_guard, ev_swap, ev_wpc, ev_wi, ev_pre, ev_hist>>
    /\ UNCHANGED NotEvMap

\* drop(Reader): the strategy keeps the only Arc of the Epoch
EvMapDropReader(r) ==
    /\ ev_handle[r] = "alive" /\ ev_rpc[r] = "idle"
    /\ ev_handle' = [ev_handle EXCEPT ![r] = "dropped"]
    /\ UNCHANGED <<ev_flags, ev_epochs, ev_new, ev_current, ev_last, ev_rpc, ev_guard,
                   ev_swap, ev_wpc, ev_wi, ev_pre, ev_hist>>
    /\ UNCHANGED NotEvMap

\* acquire_read_guard: panic if current is odd, else current.fetch_add(1)
EvMapAcquireAdd(r) ==
    /\ ev_handle[r] = "alive" /\ ev_rpc[r] = "idle"
    /\ ev_current[r] % 2 = 0
    /\ ev_current[r] + 2 <= EvMaxEpoch
    /\ ev_current' = [ev_current EXCEPT ![r] = @ + 1]
    /\ ev_rpc' = [ev_rpc EXCEPT ![r] = "added"]
    /\ UNCHANGED <<ev_flags, ev_epochs, ev_new, ev_last, ev_handle, ev_guard,
                   ev_swap, ev_wpc, ev_wi, ev_pre, ev_hist>>
    /\ UNCHANGED NotEvMap

\* acquire_read_guard: flags.load() & IS_SWAPPED; the guard borrows
\* buffers.get(swapped).0
EvMapAcquireLoad(r) ==
    /\ ev_rpc[r] = "added"
    /\ ev_guard' = [ev_guard EXCEPT ![r] =
           [held |-> TRUE, swapped |-> ev_flags.swapped, cell |-> BufGet(ev_flags.swapped).read]]
    /\ ev_rpc' = [ev_rpc EXCEPT ![r] = "held"]
    /\ UNCHANGED <<ev_flags, ev_epochs, ev_new, ev_current, ev_last, ev_handle,
                   ev_swap, ev_wpc, ev_wi, ev_pre, ev_hist>>
    /\ UNCHANGED NotEvMap

\* a release that leaves the epoch counter as it is
EvMapReleaseNoAdd(r) ==
    /\ ev_rpc[r] = "held"
    /\ ev_guard' = [ev_guard EXCEPT ![r] = NoGuard]
    /\ ev_rpc' = [ev_rpc EXCEPT ![r] = "idle"]
    /\ ev_pre' = [ev_pre EXCEPT ![r] = FALSE]
    /\ UNCHANGED <<ev_flags, ev_epochs, ev_new, ev_current, ev_last, ev_handle,
                   ev_swap, ev_wpc, ev_wi, ev_hist>>
    /\ UNCHANGED NotEvMap

\* release_read_guard: current.fetch_add(1)
EvMapRelease(r) ==
    /\ ev_rpc[r] = "held"
    /\ ev_current' = [ev_current EXCEPT ![r] = @ + 1]
    /\ ev_guard' = [ev_guard EXCEPT ![r] = NoGuard]
    /\ ev_rpc' = [ev_rpc EXCEPT ![r] = "idle"]
    /\ ev_pre' = [ev_pre EXCEPT ![r] = FALSE]
    /\ UNCHANGED <<ev_flags, ev_epochs, ev_new, ev_last, ev_handle,
                   ev_swap, ev_wpc, ev_wi, ev_hist>>
    /\ UNCHANGED NotEvMap

\* try_start_swap: flags.fetch_xor(IS_SWAPPED)
EvMapStartSwap ==
    /\ ev_wpc = "idle" /\ ~ev_swap.active
    /\ ev_flags' = [ev_flags EXCEPT !.swapped = ~@]
    /\ ev_wpc' = IF ev_flags.has_new THEN "merge" ELSE "retain"
    /\ ev_pre' = [r \in Readers |-> ev_rpc[r] = "held"]
    /\ UNCHANGED <<ev_epochs, ev_new, ev_current, ev_last, ev_handle, ev_rpc, ev_guard,
                   ev_swap, ev_wi, ev_hist>>
    /\ UNCHANGED NotEvMap

\* try_start_swap: under the mutex, clear HAS_NEW_EPOCHS and append the new epochs
EvMapMergeNew ==
    /\ ev_wpc = "merge"
    /\ ev_flags' = [ev_flags EXCEPT !.has_new = FALSE]
    /\ ev_epochs' = ev_epochs \o ev_new
    /\ ev_new' = <<>>
    /\ ev_wpc' = "retain"
    /\ UNCHANGED <<ev_current, ev_last, ev_handle, ev_rpc, ev_guard, ev_swap, ev_wi,
                   ev_pre, ev_hist>>
    /\ UNCHANGED NotEvMap

\* try_start_swap: epochs.retain(|epoch| !Arc::is_unique(epoch))
EvMapRetain ==
    /\ ev_wpc = "retain"
    /\ LET shared(r) == ev_handle[r] # "dropped"
           gone == {ev_epochs[i] : i \in 1..Len(ev_epochs)} \ {r \in Readers : shared(r)}
       IN /\ ev_epochs' = SelectSeq(ev_epochs, shared)
          /\ ev_handle' = [r \in Readers |-> IF r \in gone THEN "none" ELSE ev_handle[r]]
          /\ ev_current' = [r \in Readers |-> IF r \in gone THEN 0 ELSE ev_current[r]]
          /\ ev_last' = [r \in Readers |-> IF r \in gone THEN 0 ELSE ev_last[r]]
    /\ ev_wpc' = "snap"
    /\ ev_wi' = 1
    /\ UNCHANGED <<ev_flags, ev_new, ev_rpc, ev_guard, ev_swap, ev_pre, ev_hist>>
    /\ UNCHANGED NotEvMap

\* try_start_swap: epoch.last.set(epoch.current.load()) for one epoch, and
\* Ok(Swap { start: 0, end: epochs.len() }) after the last one
EvMapSnapshot ==
    /\ ev_wpc = "snap"
    /\ IF ev_wi <= Len(ev_epochs)
       THEN /\ ev_last' = [ev_last EXCEPT ![ev_epochs[ev_wi]] = ev_current[ev_epochs[ev_wi]]]
            /\ ev_wi' = ev_wi + 1
            /\ UNCHANGED <<ev_swap, ev_wpc>>
       ELSE /\ ev_swap' = [active |-> TRUE, start |-> 0, end |-> Len(ev_epochs)]
            /\ ev_wpc' = "idle"
            /\ ev_wi' = 0
            /\ UNCHANGED ev_last
    /\ UNCHANGED <<ev_flags, ev_epochs, ev_new, ev_current, ev_handle, ev_rpc, ev_guard,
                   ev_pre, ev_hist>>
    /\ UNCHANGED NotEvMap

\* is_swap_finished / finish_swap's park_until closure: enter the loop over
\* epochs[swap.start..swap.end]
EvMapIsSwapFinished ==
    /\ ev_wpc = "idle" /\ ev_swap.active
    /\ ev_wpc' = "check"
    /\ ev_wi' = 0
    /\ UNCHANGED <<ev_flags, ev_epochs, ev_new, ev_current, ev_last, ev_handle, ev_rpc,
                   ev_guard, ev_swap, ev_pre, ev_hist>>
    /\ UNCHANGED NotEvMap

\* is_swap_finished: one turn of the loop, or its end (swap.start = swap.end; true)
EvMapCheckEpoch ==
    /\ ev_wpc = "check"
    /\ LET k == ev_swap.start + ev_wi
       IN IF k >= ev_swap.end
          THEN /\ ev_swap' = EvNoSwap
               /\ ev_wpc' = "idle"
               /\ ev_wi' = 0
               /\ ev_hist' = [ev_hist EXCEPT !.finished = TRUE]
          ELSE LET e == ev_epochs[k + 1]
               IN IF EvMapNotReading(ev_last[e])
                  THEN /\ ev_wi' = ev_wi + 1
                       /\ UNCHANGED <<ev_swap, ev_wpc, ev_hist>>
                  ELSE IF EvMapStillReading(ev_current[e], ev_last[e])
                  THEN /\ ev_swap' = [ev_swap EXCEPT !.start = @ + ev_wi]
                       /\ ev_wpc' = "idle"
                       /\ ev_wi' = 0
                       /\ ev_hist' = [ev_hist EXCEPT !.refused = TRUE]
                  ELSE /\ ev_wi' = ev_wi + 1
                       /\ UNCHANGED <<ev_swap, ev_wpc, ev_hist>>
    /\ UNCHANGED <<ev_flags, ev_epochs, ev_new, ev_current, ev_last, ev_handle, ev_rpc,
                   ev_guard, ev_pre>>
    /\ UNCHANGED NotEvMap

EvMapNext ==
    \/ \E r \in Readers : EvMapCreateFromWriter(r)
    \/ \E r, n \in Readers : EvMapCreateFromReader(r, n)
    \/ \E r \in Readers : EvMapDropReader(r)
    \/ \E r \in Readers : EvMapAcquireAdd(r)
    \/ \E r \in Readers : EvMapAcquireLoad(r)
    \/ \E r \in Readers : EvMapRelease(r)
    \/ EvMapStartSwap
    \/ EvMapMergeNew
    \/ EvMapRetain
    \/ EvMapSnapshot
    \/ EvMapIsSwapFinished
    \/ EvMapCheckEpoch

\* the writer is outside try_start_swap / is_swap_finished and no swap is in
\* progress: Writer::split_mut hands out parts[IS_SWAPPED] for writing
EvMapWriterOwnsWriteCell == ev_wpc = "idle" /\ ~ev_swap.active

\* C1: EvMapStrategy: a reader that acquired its guard before a swap was started
\* and has not released it keeps is_swap_finished false (finish_swap from
\* returning); so whenever the swap is reported finished, no reader still
\* holds a guard from before the swap and no outstanding guard pins the cell
\* the writer now writes.
EvMapFinishedOnlyAfterRelease ==
    EvMapWriterOwnsWriteCell =>
        \A r \in Readers :
            /\ ~ev_pre[r]
            /\ ev_guard[r].held => ev_guard[r].cell # BufGet(ev_flags.swapped).write

\* C1 witness: a swap was refused because of a guard, later reported finished,
\* and a cloned reader holds a guard while the writer owns the write cell
EvMapFinishedAfterRefusal ==
    /\ EvMapWriterOwnsWriteCell
    /\ ev_hist.refused /\ ev_hist.finished
    /\ ev_flags.swapped
    /\ \E r \in Readers : ev_guard[r].held

\* the readers on a list of Epochs
EvMapOn(list) == {list[i] : i \in 1..Len(list)}

\* C12: EvMapStrategy: a reader cloned from a reader while try_start_swap
\* runs is either on the writer's list, and then a guard it held when the
\* swap was started was snapshotted as reading by that swap, or still on
\* new_epochs_from_reader, and then HAS_NEW_EPOCHS is set and, once the swap
\* is past its merge, every guard it holds is on the read side after the
\* toggle.
EvMapCloneSeenOrPending ==
    /\ ev_new # <<>> => ev_flags.has_new
    /\ \A r \in Readers :
          ev_handle[r] = "alive" => r \in EvMapOn(ev_epochs) \cup EvMapOn(ev_new)
    /\ \A r \in EvMapOn(ev_new) :
          (ev_wpc # "merge" /\ ev_guard[r].held) =>
              ev_guard[r].cell = BufGet(ev_flags.swapped).read
    /\ \A r \in Readers :
          (ev_swap.active /\ ev_pre[r]) =>
              /\ \E i \in 1..ev_swap.end : ev_epochs[i] = r
              /\ ev_last[r] = ev_current[r]
              /\ ev_last[r] % 2 = 1

\* C12 witness: a swap is under way and a reader cloned after its merge,
\* still pending, holds a guard on the read side
EvMapCloneDuringSwap ==
    /\ ev_swap.active
    /\ ev_flags.has_new
    /\ ev_epochs # <<>>
    /\ \E n \in EvMapOn(ev_new) :
          ev_guard[n].held /\ ev_guard[n].cell = BufGet(ev_flags.swapped).read

\* the reader is between the fetch_add of acquire_read_guard and the fetch_add
\* of release_read_guard
EvMapReading(r) == ev_rpc[r] \in {"added", "held"}

\* C33: EvMapStrategy: a reader's `current` only increases, by exactly 1 in
\* acquire_read_guard and by exactly 1 in release_read_guard, so it is odd
\* exactly while the reader holds a guard; the `last` that try_start_swap
\* snapshots is odd exactly for the readers holding a guard at their snapshot.
EvMapEpochParity ==
    /\ [](\A r \in Readers : ev_current[r] % 2 = 1 <=> EvMapReading(r))
    /\ [][\A r \in Readers :
            /\ (ev_handle[r] # "none" /\ ev_handle'[r] # "none") =>
                  \/ ev_current'[r] = ev_current[r] /\ (EvMapReading(r)' <=> EvMapReading(r))
                  \/ ev_current'[r] = ev_current[r] + 1 /\ (EvMapReading(r)' <=> ~EvMapReading(r))
            /\ (ev_wpc = "snap" /\ ev_wi' = ev_wi + 1 /\ ev_epochs[ev_wi] = r) =>
                  /\ ev_last'[r] = ev_current[r]
                  /\ ev_last'[r] % 2 = 1 <=> EvMapReading(r)]_vars

\* C33 witness: a snapshot was taken of a reader in its second read and of a
\* reader that has finished a read
EvMapSnapshotBothParities ==
    /\ ev_wpc = "idle" /\ ev_swap.active
    /\ \E r, q \in Readers :
          /\ ev_rpc[r] = "held" /\ ev_current[r] = 3 /\ ev_last[r] = 3
          /\ ev_handle[q] = "alive" /\ ev_last[q] = 2 /\ ev_rpc[q] = "idle"

\* C34: EvMapStrategy: is_swap_finished returns true if and only if every epoch
\* of the swap's range with an odd `last` has a `current` different from it;
\* when it returns false, swap.start is moved to the first reader still equal
\* to its snapshot, and the readers skipped from then on have all advanced.
EvMapFinishedIffAllAdvanced ==
    [][(ev_wpc = "check" /\ ev_wpc' = "idle") =>
         LET Unfinished(k) == /\ ev_last[ev_epochs[k]] % 2 = 1
                              /\ ev_current[ev_epochs[k]] = ev_last[ev_epochs[k]]
         IN IF ev_swap'.active
            THEN /\ ev_swap'.start >= ev_swap.start
                 /\ ev_swap'.start < ev_swap.end
                 /\ Unfinished(ev_swap'.start + 1)
                 /\ \A k \in 1..ev_swap'.start : ~Unfinished(k)
            ELSE \A k \in 1..ev_swap.end : ~Unfinished(k)]_vars

\* C34 witness: is_swap_finished returned false at the second reader, after
\* skipping a first reader that was reading at the snapshot and has advanced
EvMapResumesAtSecond ==
    /\ ev_wpc = "idle" /\ ev_swap.active /\ ev_swap.start = 1 /\ ev_swap.end = 2
    /\ ev_last[ev_epochs[1]] % 2 = 1
    /\ ev_current[ev_epochs[1]] # ev_last[ev_epochs[1]]
    /\ ev_rpc[ev_epochs[2]] = "held"

(***************************************************************************)
(* FlashStrategy (strategy/flashmap.rs).  A reader's word holds the parity *)
(* it read under and the READER_ACTIVE bit; the writer counts the readers  *)
(* active under the old parity and waits for them to decrement residual.   *)
(***************************************************************************)
\* swaps started are capped
FlMaxSwaps == 3

NOT_SWAPPED == 0
SWAPPED == 1
READER_ACTIVE == 2

\* a toggle that leaves the word as it is
KeepSwapped(w) == w

\* a word is never taken as active
IsActiveNever(w) == FALSE

\* w ^ READER_ACTIVE, w | READER_ACTIVE, w & READER_ACTIVE != 0, w ^ SWAPPED
\* on words of two bits
XorActive(w) == IF w >= READER_ACTIVE THEN w - READER_ACTIVE ELSE w + READER_ACTIVE
OrActive(w) == (w % READER_ACTIVE) + READER_ACTIVE
IsActive(w) == w >= READER_ACTIVE
XorSwapped(w) == IF w % 2 = SWAPPED THEN w - SWAPPED ELSE w + SWAPPED

FlNoSwap == [active |-> FALSE, residual |-> 0, done |-> FALSE]
FlNoLocals == [old |-> 0, count |-> 0, expected |-> 0, res |-> 0]

FlashInit ==
    /\ fl_swap_state = NOT_SWAPPED
    /\ fl_readers = <<>>
    /\ fl_word = [r \in Readers |-> 0]
    /\ fl_handle = [r \in Readers |-> "none"]
    /\ fl_residual = 0
    /\ fl_parker = "none"
    /\ fl_permit = FALSE
    /\ fl_rpc = [r \in Readers |-> "idle"]
    /\ fl_rloc = [r \in Readers |-> 0]
    /\ fl_guard = [r \in Readers |-> NoGuard]
    /\ fl_swap = FlNoSwap
    /\ fl_wpc = "idle"
    /\ fl_wi = 0
    /\ fl_wloc = FlNoLocals
    /\ fl_nswaps = 0
    /\ fl_pre = [r \in Readers |-> FALSE]
    /\ fl_obs = [res |-> "none", pre_held |-> FALSE, busy |-> FALSE]

\* Swap::expected_residual
FlashExpectedResidual(swap) == 0 - swap.residual

\* is_swapped / is_swapped_writer: swap_state != NOT_SWAPPED
FlashIsSwapped(swap_state) == swap_state # NOT_SWAPPED

\* try_start_swap, in retain: the reader counts as residual
FlashIsResidual(reader_swap_state, old_swap_state) ==
    reader_swap_state = OrActive(old_swap_state)

\* create_reader_id (Writer::reader, Reader::clone): under the mutex, push a
\* fresh word
FlashCreateReader(n) ==
    /\ fl_handle[n] = "none"
    /\ fl_wpc # "scan"
    /\ \/ fl_wpc = "idle"
       \/ \E r \in Readers : fl_handle[r] = "alive" /\ fl_rpc[r] = "idle"
    /\ fl_handle' = [fl_handle EXCEPT ![n] = "alive"]
    /\ fl_word' = [fl_word EXCEPT ![n] = 0]
    /\ fl_readers' = Append(fl_readers, n)
    /\ UNCHANGED <<fl_swap_state, fl_residual, fl_parker, fl_permit, fl_rpc, fl_rloc,
                   fl_guard, fl_swap, fl_wpc, fl_wi, fl_wloc, fl_nswaps, fl_pre, fl_obs>>
    /\ UNCHANGED NotFlash

\* drop(Reader): the strategy keeps the only Arc of the word
FlashDropReader(r) ==
    /\ fl_handle[r] = "alive" /\ fl_rpc[r] = "idle"
    /\ fl_handle' = [fl_handle EXCEPT ![r] = "dropped"]
    /\ UNCHANGED <<fl_swap_state, fl_readers, fl_word, fl_residual, fl_parker, fl_permit,
                   fl_rpc, fl_rloc, fl_guard, fl_swap, fl_wpc, fl_wi, fl_wloc, fl_nswaps,
                   fl_pre, fl_obs>>
    /\ UNCHANGED NotFlash

\* acquire_read_guard: swap_state = self.swap_state.load()
FlashAcquireLoad(r) ==
    /\ fl_handle[r] = "alive" /\ fl_rpc[r] = "idle"
    /\ fl_rloc' = [fl_rloc EXCEPT ![r] = fl_swap_state]
    /\ fl_rpc' = [fl_rpc EXCEPT ![r] = "loaded"]
    /\ UNCHANGED <<fl_swap_state, fl_readers, fl_word, fl_handle, fl_residual, fl_parker,
                   fl_permit, fl_guard, fl_swap, fl_wpc, fl_wi, fl_wloc, fl_nswaps,
                   fl_pre, fl_obs>>
    /\ UNCHANGED NotFlash

\* acquire_read_guard: assert the word is not active, store
\* swap_state | READER_ACTIVE, return ReadGuard { swap_state }; the guard
\* borrows buffers.get(is_swapped).0
FlashAcquireStore(r) ==
    /\ fl_rpc[r] = "loaded"
    /\ ~IsActive(fl_word[r])
    /\ fl_word' = [fl_word EXCEPT ![r] = OrActive(fl_rloc[r])]
    /\ fl_guard' = [fl_guard EXCEPT ![r] =
           [held |-> TRUE, swapped |-> FlashIsSwapped(fl_rloc[r]),
            cell |-> BufGet(FlashIsSwapped(fl_rloc[r])).read]]
    /\ fl_rpc' = [fl_rpc EXCEPT ![r] = "held"]
    /\ fl_rloc' = [fl_rloc EXCEPT ![r] = 0]
    /\ UNCHANGED <<fl_swap_state, fl_readers, fl_handle, fl_residual, fl_parker,
                   fl_permit, fl_swap, fl_wpc, fl_wi, fl_wloc, fl_nswaps, fl_pre, fl_obs>>
    /\ UNCHANGED NotFlash

\* drop(ReaderGuard), release_read_guard: reader_swap_state =
\* id.fetch_xor(READER_ACTIVE) ^ READER_ACTIVE
FlashReleaseXor(r) ==
    /\ fl_rpc[r] = "held"
    /\ fl_word' = [fl_word EXCEPT ![r] = XorActive(@)]
    /\ fl_rloc' = [fl_rloc EXCEPT ![r] = XorActive(fl_word[r])]
    /\ fl_guard' = [fl_guard EXCEPT ![r] = NoGuard]
    /\ fl_pre' = [fl_pre EXCEPT ![r] = FALSE]
    /\ fl_rpc' = [fl_rpc EXCEPT ![r] = "xored"]
    /\ UNCHANGED <<fl_swap_state, fl_readers, fl_handle, fl_residual, fl_parker,
                   fl_permit, fl_swap, fl_wpc, fl_wi, fl_wloc, fl_nswaps, fl_obs>>
    /\ UNCHANGED NotFlash

\* release_read_guard: swap_state = self.swap_state.load(); return if there
\* was no intervening swap
FlashReleaseLoad(r) ==
    /\ fl_rpc[r] = "xored"
    /\ fl_rpc' = [fl_rpc EXCEPT ![r] = IF fl_swap_state = fl_rloc[r] THEN "idle" ELSE "sub"]
    /\ fl_rloc' = [fl_rloc EXCEPT ![r] = 0]
    /\ UNCHANGED <<fl_swap_state, fl_readers, fl_word, fl_handle, fl_residual,
                   fl_parker, fl_permit, fl_guard, fl_swap, fl_wpc, fl_wi, fl_wloc,
                   fl_nswaps, fl_pre, fl_obs>>
    /\ UNCHANGED NotFlash

\* release_read_guard: residual.fetch_sub(1); only the last residual reader
\* wakes the writer
FlashReleaseSub(r) ==
    /\ fl_rpc[r] = "sub"
    /\ fl_residual' = fl_residual - 1
    /\ fl_rpc' = [fl_rpc EXCEPT ![r] = IF fl_residual = 1 THEN "wake" ELSE "idle"]
    /\ UNCHANGED <<fl_swap_state, fl_readers, fl_word, fl_handle, fl_parker, fl_permit,
                   fl_rloc, fl_guard, fl_swap, fl_wpc, fl_wi, fl_wloc, fl_nswaps,
                   fl_pre, fl_obs>>
    /\ UNCHANGED NotFlash

\* ThreadParkToken::wake: take the thread out of the token and unpark it
FlashWake(r) ==
    /\ fl_rpc[r] = "wake"
    /\ fl_permit' = (fl_permit \/ fl_parker = "set")
    /\ fl_parker' = "none"
    /\ fl_rpc' = [fl_rpc EXCEPT ![r] = "idle"]
    /\ UNCHANGED <<fl_swap_state, fl_readers, fl_word, fl_handle, fl_residual, fl_rloc,
                   fl_guard, fl_swap, fl_wpc, fl_wi, fl_wloc, fl_nswaps, fl_pre,
                   fl_obs>>
    /\ UNCHANGED NotFlash

\* try_start_swap: old_swap_state = swap_state.fetch_xor(SWAPPED), then lock
\* the readers
FlashStartSwap ==
    /\ fl_wpc = "idle" /\ ~fl_swap.active
    /\ fl_nswaps < FlMaxSwaps
    /\ fl_nswaps' = fl_nswaps + 1
    /\ fl_swap_state' = XorSwapped(fl_swap_state)
    /\ fl_wloc' = [FlNoLocals EXCEPT !.old = fl_swap_state]
    /\ fl_wpc' = "scan"
    /\ fl_wi' = 1
    /\ fl_pre' = [r \in Readers |-> fl_rpc[r] = "held"]
    /\ fl_obs' = [res |-> "none", pre_held |-> FALSE, busy |-> FALSE]
    /\ UNCHANGED <<fl_readers, fl_word, fl_handle, fl_residual, fl_parker, fl_permit,
                   fl_rpc, fl_rloc, fl_guard, fl_swap>>
    /\ UNCHANGED NotFlash

\* a retain that takes every Arc as unique
FlashUniqueAlways(handle) == TRUE

\* try_start_swap, in retain: Arc::is_unique(reader), the list holds the only
\* Arc of the word
FlashIsUnique(handle) == handle = "dropped"

\* try_start_swap: one call of the retain closure (drop a unique Arc, else load
\* the word and count it if it is old_swap_state | READER_ACTIVE), and
\* Ok(Swap { residual }) after the last one
FlashScanReader ==
    /\ fl_wpc = "scan"
    /\ IF fl_wi <= Len(fl_readers)
       THEN LET r == fl_readers[fl_wi]
            IN IF FlashIsUnique(fl_handle[r])
               THEN /\ fl_readers' = SelectSeq(fl_readers, LAMBDA x : x # r)
                    /\ fl_handle' = [fl_handle EXCEPT ![r] = "none"]
                    /\ fl_word' = [fl_word EXCEPT ![r] = 0]
                    /\ UNCHANGED <<fl_wi, fl_wloc, fl_swap, fl_wpc>>
               ELSE /\ fl_wloc' = [fl_wloc EXCEPT !.count =
                           IF FlashIsResidual(fl_word[r], fl_wloc.old) THEN @ + 1 ELSE @]
                    /\ fl_wi' = fl_wi + 1
                    /\ UNCHANGED <<fl_readers, fl_handle, fl_word, fl_swap, fl_wpc>>
       ELSE /\ fl_swap' = [active |-> TRUE, residual |-> fl_wloc.count, done |-> FALSE]
            /\ fl_wpc' = "idle"
            /\ fl_wi' = 0
            /\ fl_wloc' = FlNoLocals
            /\ UNCHANGED <<fl_readers, fl_handle, fl_word>>
    /\ UNCHANGED <<fl_swap_state, fl_residual, fl_parker, fl_permit, fl_rpc, fl_rloc,
                   fl_guard, fl_nswaps, fl_pre, fl_obs>>
    /\ UNCHANGED NotFlash

\* is_swap_finished: residual.load() == swap.expected_residual()
FlashIsSwapFinished ==
    /\ fl_wpc = "idle" /\ fl_swap.active
    /\ LET fin == fl_residual = FlashExpectedResidual(fl_swap)
       IN /\ fl_swap' = [fl_swap EXCEPT !.done = fin]
          /\ fl_obs' = [res |-> IF fin THEN "true" ELSE "false",
                        pre_held |-> \E r \in Readers : fl_pre[r],
                        busy |-> \E r \in Readers : fl_rpc[r] # "idle"]
    /\ UNCHANGED <<fl_swap_state, fl_readers, fl_word, fl_handle, fl_residual,
                   fl_parker, fl_permit, fl_rpc, fl_rloc, fl_guard, fl_wpc, fl_wi,
                   fl_wloc, fl_nswaps, fl_pre>>
    /\ UNCHANGED NotFlash

\* finish_swap, in poll: residual.load() == swap.expected_residual()
FlashPollLoad ==
    /\ fl_wpc = "idle" /\ fl_swap.active
    /\ IF fl_residual = FlashExpectedResidual(fl_swap)
       THEN IF fl_swap.residual # 0
            THEN fl_wpc' = "ready" /\ UNCHANGED fl_swap
            ELSE fl_wpc' = "idle" /\ fl_swap' = FlNoSwap
       ELSE fl_wpc' = "setup" /\ UNCHANGED fl_swap
    /\ UNCHANGED <<fl_swap_state, fl_readers, fl_word, fl_handle, fl_residual,
                   fl_parker, fl_permit, fl_rpc, fl_rloc, fl_guard, fl_wi, fl_wloc,
                   fl_nswaps, fl_pre, fl_obs>>
    /\ UNCHANGED NotFlash

\* poll: residual.fetch_add(swap.residual); Poll::Ready, finish_swap returns
FlashPollReady ==
    /\ fl_wpc = "ready"
    /\ fl_residual' = fl_residual + fl_swap.residual
    /\ fl_swap' = FlNoSwap
    /\ fl_wpc' = "idle"
    /\ UNCHANGED <<fl_swap_state, fl_readers, fl_word, fl_handle, fl_parker, fl_permit,
                   fl_rpc, fl_rloc, fl_guard, fl_wi, fl_wloc, fl_nswaps, fl_pre,
                   fl_obs>>
    /\ UNCHANGED NotFlash

\* poll: expected_residual, take(&mut swap.residual), setup(true) puts the
\* current thread in the park token
FlashPollSetup ==
    /\ fl_wpc = "setup"
    /\ fl_wloc' = [fl_wloc EXCEPT !.expected = FlashExpectedResidual(fl_swap),
                                  !.res = fl_swap.residual]
    /\ fl_swap' = [fl_swap EXCEPT !.residual = 0]
    /\ fl_parker' = "set"
    /\ fl_wpc' = "add"
    /\ UNCHANGED <<fl_swap_state, fl_readers, fl_word, fl_handle, fl_residual,
                   fl_permit, fl_rpc, fl_rloc, fl_guard, fl_wi, fl_nswaps, fl_pre,
                   fl_obs>>
    /\ UNCHANGED NotFlash

\* poll: residual.fetch_add(residual); Ready with setup(false) if all residual
\* readers had finished already, else Pending
FlashPollAdd ==
    /\ fl_wpc = "add"
    /\ fl_residual' = fl_residual + fl_wloc.res
    /\ IF fl_residual = fl_wloc.expected
       THEN /\ fl_parker' = "none"
            /\ fl_swap' = FlNoSwap
            /\ fl_wpc' = "idle"
       ELSE /\ fl_wpc' = "park"
            /\ UNCHANGED <<fl_parker, fl_swap>>
    /\ fl_wloc' = FlNoLocals
    /\ UNCHANGED <<fl_swap_state, fl_readers, fl_word, fl_handle, fl_permit, fl_rpc,
                   fl_rloc, fl_guard, fl_wi, fl_nswaps, fl_pre, fl_obs>>
    /\ UNCHANGED NotFlash

\* finish_swap: while residual.load() != 0 { park() }; park consumes the
\* unpark token or returns spuriously
FlashParkLoop ==
    /\ fl_wpc = "park"
    /\ IF fl_residual = 0
       THEN /\ fl_swap' = FlNoSwap
            /\ fl_wpc' = "idle"
            /\ UNCHANGED fl_permit
       ELSE /\ fl_permit' = FALSE
            /\ UNCHANGED <<fl_swap, fl_wpc>>
    /\ UNCHANGED <<fl_swap_state, fl_readers, fl_word, fl_handle, fl_residual,
                   fl_parker, fl_rpc, fl_rloc, fl_guard, fl_wi, fl_wloc, fl_nswaps,
                   fl_pre, fl_obs>>
    /\ UNCHANGED NotFlash

FlashNext ==
    \/ \E n \in Readers : FlashCreateReader(n)
    \/ \E r \in Readers : FlashDropReader(r)
    \/ \E r \in Readers : FlashAcquireLoad(r)
    \/ \E r \in Readers : FlashAcquireStore(r)
    \/ \E r \in Readers : FlashReleaseXor(r)
    \/ \E r \in Readers : FlashReleaseLoad(r)
    \/ \E r \in Readers : FlashReleaseSub(r)
    \/ \E r \in Readers : FlashWake(r)
    \/ FlashStartSwap
    \/ FlashScanReader
    \/ FlashIsSwapFinished
    \/ FlashPollLoad
    \/ FlashPollReady
    \/ FlashPollSetup
    \/ FlashPollAdd
    \/ FlashParkLoop

\* the writer is outside try_start_swap / finish_swap and its swap, if any, was
\* reported finished: Writer::split_mut hands out parts[is_swapped_writer]
FlashWriterOwnsWriteCell == fl_wpc = "idle" /\ (~fl_swap.active \/ fl_swap.done)

FlashWriteCell == BufGet(FlashIsSwapped(fl_swap_state)).write

\* C2: FlashStrategy: while a read guard pins a cell, the writer never has
\* exclusive access to that cell (a swap reported finished with that cell as
\* the write side), under every interleaving of the two steps of
\* acquire_read_guard with try_start_swap's toggle and scan.
FlashNoGuardOnWriteCell ==
    FlashWriterOwnsWriteCell =>
        \A r \in Readers : fl_guard[r].held => fl_guard[r].cell # FlashWriteCell

\* C6: Flash (smoke test): after try_start_swap with a reader holding a guard
\* acquired before it, (a) the writer's write cell is the cell that guard
\* pins, (b) is_swap_finished returns false as long as the guard is held, and
\* (c) is_swap_finished returns true once no reader is reading or releasing.
FlashSmokeHolds ==
    /\ \A r \in Readers :
           (fl_pre[r] /\ fl_guard[r].held) => fl_guard[r].cell = FlashWriteCell
    /\ fl_obs.res = "true" => ~fl_obs.pre_held
    /\ fl_obs.res = "false" => fl_obs.busy

\* C16: Flash: once is_swap_finished has returned true for a swap, every
\* later is_swap_finished on that swap (before it is consumed and a new
\* swap is started) returns true as well.
FlashFinishedStaysFinished ==
    [][(fl_swap.active /\ fl_swap.done /\ fl_swap'.active) => fl_swap'.done]_vars

\* C39: FlashStrategy: try_start_swap removes from the reader list exactly the
\* slots whose reader handle has been dropped: a live handle's slot is in the
\* list, once, at all times; a slot leaves the list only in the scan and only
\* if its handle is dropped; and every step of the scan examines the slot at
\* its index, removing it if its handle is dropped and moving to the next
\* slot if not.
FlashScanRemovesDropped ==
    /\ [](\A r \in Readers : fl_handle[r] = "alive" =>
              Cardinality({k \in 1..Len(fl_readers) : fl_readers[k] = r}) = 1)
    /\ [][/\ \A k \in 1..Len(fl_readers) :
               (\A j \in 1..Len(fl_readers') : fl_readers'[j] # fl_readers[k]) =>
                   fl_wpc = "scan" /\ k = fl_wi /\ fl_handle[fl_readers[k]] = "dropped"
          /\ (fl_wpc = "scan" /\ fl_wi <= Len(fl_readers)
                 /\ <<fl_wi, fl_readers>>' # <<fl_wi, fl_readers>>) =>
               IF fl_handle[fl_readers[fl_wi]] = "dropped"
               THEN /\ fl_wi' = fl_wi
                    /\ fl_readers' = [k \in 1..(Len(fl_readers) - 1) |->
                           IF k < fl_wi THEN fl_readers[k] ELSE fl_readers[k + 1]]
               ELSE fl_wi' = fl_wi + 1 /\ fl_readers' = fl_readers]_vars

\* C39 witness: the scan has kept the slot of a reader that holds a guard and
\* is at the slot of a dropped handle
FlashScanAtDroppedSlot ==
    /\ fl_wpc = "scan" /\ fl_wi = 2 /\ Len(fl_readers) = 2
    /\ fl_rpc[fl_readers[1]] = "held"
    /\ fl_handle[fl_readers[2]] = "dropped"

\* C27: FlashStrategy: a reader decrements residual on release if and only if
\* the scan of the swap counted it: for the first swap, once try_start_swap
\* has returned, no guard read under the parity before the swap is held and
\* no release is under way, the decrements equal the Swap's count (residual
\* == expected_residual), so that the swap is reported finished.
FlashDecrementsMatchCount ==
    (/\ fl_nswaps = 1 /\ fl_swap.active /\ fl_wpc = "idle"
     /\ \A r \in Readers : fl_rpc[r] \in {"idle", "loaded", "held"}
     /\ \A r \in Readers :
            fl_guard[r].held => fl_guard[r].swapped = FlashIsSwapped(fl_swap_state))
        => fl_residual = FlashExpectedResidual(fl_swap)

\* the writer thread goes round its park loop (park may also return without
\* an unpark), a reader inside acquire_read_guard or release_read_guard runs
\* to the end of the call, and every guard is dropped in the end; nothing
\* makes a reader take a guard or the writer start a swap
FlashFairness ==
    /\ WF_vars(FlashParkLoop)
    /\ \A r \in Readers : WF_vars(FlashAcquireStore(r))
    /\ \A r \in Readers : WF_vars(FlashReleaseXor(r))
    /\ \A r \in Readers : WF_vars(FlashReleaseLoad(r))
    /\ \A r \in Readers : WF_vars(FlashReleaseSub(r))
    /\ \A r \in Readers : WF_vars(FlashWake(r))

\* C30: Flash, blocking: the reader whose decrement takes residual from 1 to
\* 0 wakes the writer, so a writer parked in finish_swap is unparked when the
\* last residual reader has released, and finish_swap returns.
FlashParkedWriterReturns == (fl_wpc = "park") ~> (fl_wpc = "idle")

(***************************************************************************)
(* HazardFlashStrategy (strategy/hazad_flash.rs) and the Hazard pool       *)
(* (strategy/hazad_flash/hazard.rs).  Reader words live in the nodes of    *)
(* the pool; a handle keeps a tagged pointer to its node.  The constants   *)
(* NOT_SWAPPED, SWAPPED, READER_ACTIVE have the values of flashmap.rs.     *)
(***************************************************************************)
\* Hazard<AtomicUsize, 4>: nodes per chunk
HazardN == 4

\* chunks allocated are capped
HfMaxChunks == 1

\* swaps started are capped
HfMaxSwaps == 3

HfSlots == 1..(HfMaxChunks * HazardN)

\* the nodes of the chunks allocated so far
HfAllocated == 1..(hf_nchunks * HazardN)

HfNoHandle == [state |-> "none", node |-> 0, tag |-> FALSE]
HfNoSwap == [active |-> FALSE, done |-> FALSE]
HfNoLocals == [old |-> 0, count |-> 0, snap |-> 0]

HazardFlashInit ==
    /\ hf_swap_state = NOT_SWAPPED
    /\ hf_nchunks = 0
    /\ hf_locked = [n \in HfSlots |-> FALSE]
    /\ hf_value = [n \in HfSlots |-> 0]
    /\ hf_handle = [r \in Readers |-> HfNoHandle]
    /\ hf_residual = 0
    /\ hf_parker = "none"
    /\ hf_permit = FALSE
    /\ hf_rpc = [r \in Readers |-> "idle"]
    /\ hf_rloc = [r \in Readers |-> FALSE]
    /\ hf_gstate = [r \in Readers |-> 0]
    /\ hf_guard = [r \in Readers |-> NoGuard]
    /\ hf_first = [r \in Readers |-> FALSE]
    /\ hf_swap = HfNoSwap
    /\ hf_wpc = "idle"
    /\ hf_wi = 0
    /\ hf_wloc = HfNoLocals
    /\ hf_nswaps = 0
    /\ hf_pre = [r \in Readers |-> FALSE]

\* create_reader_id: the value a new node is created with,
\* `|| AtomicUsize::new(0)`
HazardFlashNewWord(swap_state) == 0

\* reader_id: Option::get_or_insert_with on ReaderId.id keeps the guard the
\* handle has, whoever holds the lock of its node
HazardFlashReaderIdNode(handle) == handle.node

\* the k-th node (from 0) the iterator yields over `snap` chunks: the chunks
\* from the head (the newest) on, the items of a chunk in order
HazardIterNode(snap, k) == (snap - (k \div HazardN) - 1) * HazardN + (k % HazardN) + 1

\* Hazard::get_or_insert_with, find_map: the first node in list order whose
\* compare_exchange_weak(false, true) succeeds; 0 if there is none.  The weak
\* compare-exchange is taken not to fail spuriously (the code itself puts
\* compare_exchange in its place under miri).
HazardFindUnlocked ==
    LET free == {k \in 0..(hf_nchunks * HazardN - 1) :
                    ~hf_locked[HazardIterNode(hf_nchunks, k)]}
    IN IF free = {} THEN 0
       ELSE HazardIterNode(hf_nchunks, CHOOSE k \in free : \A j \in free : k <= j)

\* create_reader_id, Hazard::get_or_insert_with: a node was found and locked
HazardFlashCreateReader(r) ==
    /\ hf_handle[r].state = "none"
    /\ \/ hf_wpc = "idle"
       \/ \E o \in Readers : hf_handle[o].state = "alive" /\ hf_rpc[o] = "idle"
    /\ HazardFindUnlocked # 0
    /\ LET n == HazardFindUnlocked
       IN /\ hf_locked' = [hf_locked EXCEPT ![n] = TRUE]
          /\ hf_handle' = [hf_handle EXCEPT ![r] =
                 [state |-> "alive", node |-> n, tag |-> FALSE]]
    /\ hf_first' = [hf_first EXCEPT ![r] = TRUE]
    /\ UNCHANGED <<hf_swap_state, hf_nchunks, hf_value, hf_residual, hf_parker,
                   hf_permit, hf_rpc, hf_rloc, hf_gstate, hf_guard, hf_swap, hf_wpc,
                   hf_wi, hf_wloc, hf_nswaps, hf_pre>>
    /\ UNCHANGED NotHazardFlash

\* create_reader_id, Hazard::get_or_insert_with with no node found:
\* insert_with allocates a chunk of N nodes, each value from the factory,
\* locks the first and pushes the chunk
HazardFlashCreateReaderChunk(r) ==
    /\ hf_handle[r].state = "none"
    /\ \/ hf_wpc = "idle"
       \/ \E o \in Readers : hf_handle[o].state = "alive" /\ hf_rpc[o] = "idle"
    /\ HazardFindUnlocked = 0
    /\ hf_nchunks < HfMaxChunks
    /\ LET first == hf_nchunks * HazardN + 1
           new == first..(first + HazardN - 1)
       IN /\ hf_value' = [n \in HfSlots |->
                 IF n \in new THEN HazardFlashNewWord(hf_swap_state) ELSE hf_value[n]]
          /\ hf_locked' = [hf_locked EXCEPT ![first] = TRUE]
          /\ hf_handle' = [hf_handle EXCEPT ![r] =
                 [state |-> "alive", node |-> first, tag |-> FALSE]]
    /\ hf_nchunks' = hf_nchunks + 1
    /\ hf_first' = [hf_first EXCEPT ![r] = TRUE]
    /\ UNCHANGED <<hf_swap_state, hf_residual, hf_parker, hf_permit, hf_rpc, hf_rloc,
                   hf_gstate, hf_guard, hf_swap, hf_wpc, hf_wi, hf_wloc, hf_nswaps,
                   hf_pre>>
    /\ UNCHANGED NotHazardFlash

\* Drop for ReaderId: release_if_locked (release only if the tag says locked)
HazardFlashDropReader(r) ==
    /\ hf_handle[r].state = "alive" /\ hf_rpc[r] \in {"idle", "panic"}
    /\ hf_locked' = IF hf_handle[r].tag THEN hf_locked
                    ELSE [hf_locked EXCEPT ![hf_handle[r].node] = FALSE]
    /\ hf_handle' = [hf_handle EXCEPT ![r] = HfNoHandle]
    /\ hf_rpc' = [hf_rpc EXCEPT ![r] = "idle"]
    /\ hf_first' = [hf_first EXCEPT ![r] = FALSE]
    /\ UNCHANGED <<hf_swap_state, hf_nchunks, hf_value, hf_residual, hf_parker,
                   hf_permit, hf_rloc, hf_gstate, hf_guard, hf_swap, hf_wpc, hf_wi,
                   hf_wloc, hf_nswaps, hf_pre>>
    /\ UNCHANGED NotHazardFlash

\* acquire_read_guard: RawHazardGuard::try_acquire (compare_exchange(false,
\* true) on the node, the tag cleared on success), else reader_id(reader)
HazardFlashTryAcquire(r) ==
    /\ hf_handle[r].state = "alive" /\ hf_rpc[r] = "idle"
    /\ LET n == hf_handle[r].node
       IN IF ~hf_locked[n]
          THEN /\ hf_locked' = [hf_locked EXCEPT ![n] = TRUE]
               /\ hf_handle' = [hf_handle EXCEPT ![r].tag = FALSE]
          ELSE /\ hf_handle' = [hf_handle EXCEPT ![r].node = HazardFlashReaderIdNode(hf_handle[r])]
               /\ UNCHANGED hf_locked
    /\ hf_rpc' = [hf_rpc EXCEPT ![r] = "assert"]
    /\ UNCHANGED <<hf_swap_state, hf_nchunks, hf_value, hf_residual, hf_parker,
                   hf_permit, hf_rloc, hf_gstate, hf_guard, hf_first, hf_swap, hf_wpc,
                   hf_wi, hf_wloc, hf_nswaps, hf_pre>>
    /\ UNCHANGED NotHazardFlash

\* acquire_read_guard: assert_eq!(reader_id.load() & READER_ACTIVE, 0)
HazardFlashAssertIdle(r) ==
    /\ hf_rpc[r] = "assert"
    /\ hf_rpc' = [hf_rpc EXCEPT ![r] =
           IF IsActive(hf_value[hf_handle[r].node]) THEN "panic" ELSE "or"]
    /\ UNCHANGED <<hf_swap_state, hf_nchunks, hf_locked, hf_value, hf_handle,
                   hf_residual, hf_parker, hf_permit, hf_rloc, hf_gstate, hf_guard,
                   hf_first, hf_swap, hf_wpc, hf_wi, hf_wloc, hf_nswaps, hf_pre>>
    /\ UNCHANGED NotHazardFlash

\* acquire_read_guard: id = reader_id.fetch_or(READER_ACTIVE);
\* ReadGuard { swap_state: id }; the guard borrows buffers.get(is_swapped).0
HazardFlashFetchOr(r) ==
    /\ hf_rpc[r] = "or"
    /\ LET n == hf_handle[r].node
           id == hf_value[n]
       IN /\ hf_value' = [hf_value EXCEPT ![n] = OrActive(id)]
          /\ hf_gstate' = [hf_gstate EXCEPT ![r] = id]
          /\ hf_guard' = [hf_guard EXCEPT ![r] =
                 [held |-> TRUE, swapped |-> id # NOT_SWAPPED,
                  cell |-> BufGet(id # NOT_SWAPPED).read]]
    /\ hf_rpc' = [hf_rpc EXCEPT ![r] = "held"]
    /\ UNCHANGED <<hf_swap_state, hf_nchunks, hf_locked, hf_handle, hf_residual,
                   hf_parker, hf_permit, hf_rloc, hf_first, hf_swap, hf_wpc, hf_wi,
                   hf_wloc, hf_nswaps, hf_pre>>
    /\ UNCHANGED NotHazardFlash

\* drop(ReaderGuard), release_read_guard: fetch_and(!READER_ACTIVE) and the
\* comparison of the parities
HazardFlashReleaseAnd(r) ==
    /\ hf_rpc[r] = "held"
    /\ LET n == hf_handle[r].node
           reader_swap_state == hf_value[n]
       IN /\ hf_value' = [hf_value EXCEPT ![n] = reader_swap_state % READER_ACTIVE]
          /\ hf_rpc' = [hf_rpc EXCEPT ![r] =
                 IF hf_gstate[r] % 2 = reader_swap_state % 2 THEN "unlock" ELSE "sub"]
    /\ hf_guard' = [hf_guard EXCEPT ![r] = NoGuard]
    /\ hf_gstate' = [hf_gstate EXCEPT ![r] = 0]
    /\ hf_rloc' = [hf_rloc EXCEPT ![r] = FALSE]
    /\ hf_pre' = [hf_pre EXCEPT ![r] = FALSE]
    /\ hf_first' = [hf_first EXCEPT ![r] = FALSE]
    /\ UNCHANGED <<hf_swap_state, hf_nchunks, hf_locked, hf_handle, hf_residual,
                   hf_parker, hf_permit, hf_swap, hf_wpc, hf_wi, hf_wloc, hf_nswaps>>
    /\ UNCHANGED NotHazardFlash

\* release_read_guard: residual.fetch_sub(1); only the last residual reader
\* wakes the writer
HazardFlashReleaseSub(r) ==
    /\ hf_rpc[r] = "sub"
    /\ hf_residual' = hf_residual - 1
    /\ hf_rloc' = [hf_rloc EXCEPT ![r] = (hf_residual = 1)]
    /\ hf_rpc' = [hf_rpc EXCEPT ![r] = "unlock"]
    /\ UNCHANGED <<hf_swap_state, hf_nchunks, hf_locked, hf_value, hf_handle,
                   hf_parker, hf_permit, hf_gstate, hf_guard, hf_first, hf_swap,
                   hf_wpc, hf_wi, hf_wloc, hf_nswaps, hf_pre>>
    /\ UNCHANGED NotHazardFlash

\* release_read_guard, end of the block: ReleaseOnDrop releases the node,
\* RawHazardGuard::release (is_locked.store(false), the tag set)
HazardFlashReleaseOnDrop(r) ==
    /\ hf_rpc[r] = "unlock"
    /\ hf_locked' = [hf_locked EXCEPT ![hf_handle[r].node] = FALSE]
    /\ hf_handle' = [hf_handle EXCEPT ![r].tag = TRUE]
    /\ hf_rpc' = [hf_rpc EXCEPT ![r] = IF hf_rloc[r] THEN "wake" ELSE "idle"]
    /\ hf_rloc' = [hf_rloc EXCEPT ![r] = FALSE]
    /\ UNCHANGED <<hf_swap_state, hf_nchunks, hf_value, hf_residual, hf_parker,
                   hf_permit, hf_gstate, hf_guard, hf_first, hf_swap, hf_wpc, hf_wi,
                   hf_wloc, hf_nswaps, hf_pre>>
    /\ UNCHANGED NotHazardFlash

\* ThreadParkToken::wake: take the thread out of the token and unpark it
HazardFlashWake(r) ==
    /\ hf_rpc[r] = "wake"
    /\ hf_permit' = (hf_permit \/ hf_parker = "set")
    /\ hf_parker' = "none"
    /\ hf_rpc' = [hf_rpc EXCEPT ![r] = "idle"]
    /\ UNCHANGED <<hf_swap_state, hf_nchunks, hf_locked, hf_value, hf_handle,
                   hf_residual, hf_rloc, hf_gstate, hf_guard, hf_first, hf_swap,
                   hf_wpc, hf_wi, hf_wloc, hf_nswaps, hf_pre>>
    /\ UNCHANGED NotHazardFlash

\* try_start_swap: old_swap_state = swap_state.fetch_xor(SWAPPED), and
\* readers.iter() loads the head of the list
HazardFlashStartSwap ==
    /\ hf_wpc = "idle" /\ ~hf_swap.active
    /\ hf_nswaps < HfMaxSwaps
    /\ hf_nswaps' = hf_nswaps + 1
    /\ hf_swap_state' = XorSwapped(hf_swap_state)
    /\ hf_wloc' = [old |-> hf_swap_state, count |-> 0, snap |-> hf_nchunks]
    /\ hf_wpc' = "scan"
    /\ hf_wi' = 0
    /\ hf_pre' = [r \in Readers |-> hf_rpc[r] = "held"]
    /\ UNCHANGED <<hf_nchunks, hf_locked, hf_value, hf_handle, hf_residual, hf_parker,
                   hf_permit, hf_rpc, hf_rloc, hf_gstate, hf_guard, hf_first, hf_swap>>
    /\ UNCHANGED NotHazardFlash

\* try_start_swap: one turn of the loop over the nodes (fetch_xor(1), count the
\* word if it was old_swap_state | READER_ACTIVE), and after the last one
\* residual.fetch_add(residual); Ok(Swap)
HazardFlashScanNode ==
    /\ hf_wpc = "scan"
    /\ IF hf_wi < hf_wloc.snap * HazardN
       THEN LET n == HazardIterNode(hf_wloc.snap, hf_wi)
                reader_swap_state == hf_value[n]
            IN /\ hf_value' = [hf_value EXCEPT ![n] = XorSwapped(reader_swap_state)]
               /\ hf_wloc' = [hf_wloc EXCEPT !.count =
                      IF FlashIsResidual(reader_swap_state, hf_wloc.old) THEN @ + 1 ELSE @]
               /\ hf_wi' = hf_wi + 1
               /\ UNCHANGED <<hf_residual, hf_swap, hf_wpc>>
       ELSE /\ hf_residual' = hf_residual + hf_wloc.count
            /\ hf_swap' = [active |-> TRUE, done |-> FALSE]
            /\ hf_wpc' = "idle"
            /\ hf_wi' = 0
            /\ hf_wloc' = HfNoLocals
            /\ UNCHANGED hf_value
    /\ UNCHANGED <<hf_swap_state, hf_nchunks, hf_locked, hf_handle, hf_parker,
                   hf_permit, hf_rpc, hf_rloc, hf_gstate, hf_guard, hf_first,
                   hf_nswaps, hf_pre>>
    /\ UNCHANGED NotHazardFlash

\* is_swap_finished: residual.load() == 0
HazardFlashIsSwapFinished ==
    /\ hf_wpc = "idle" /\ hf_swap.active
    /\ hf_swap' = [hf_swap EXCEPT !.done = (hf_residual = 0)]
    /\ UNCHANGED <<hf_swap_state, hf_nchunks, hf_locked, hf_value, hf_handle,
                   hf_residual, hf_parker, hf_permit, hf_rpc, hf_rloc, hf_gstate,
                   hf_guard, hf_first, hf_wpc, hf_wi, hf_wloc, hf_nswaps, hf_pre>>
    /\ UNCHANGED NotHazardFlash

\* finish_swap, in poll: residual.load() == 0, Ready
HazardFlashPollLoad ==
    /\ hf_wpc = "idle" /\ hf_swap.active
    /\ IF hf_residual = 0
       THEN hf_swap' = HfNoSwap /\ UNCHANGED hf_wpc
       ELSE hf_wpc' = "setup" /\ UNCHANGED hf_swap
    /\ UNCHANGED <<hf_swap_state, hf_nchunks, hf_locked, hf_value, hf_handle,
                   hf_residual, hf_parker, hf_permit, hf_rpc, hf_rloc, hf_gstate,
                   hf_guard, hf_first, hf_wi, hf_wloc, hf_nswaps, hf_pre>>
    /\ UNCHANGED NotHazardFlash

\* poll: setup(true), ThreadParkToken::set
HazardFlashPollSetup ==
    /\ hf_wpc = "setup"
    /\ hf_parker' = "set"
    /\ hf_wpc' = "recheck"
    /\ UNCHANGED <<hf_swap_state, hf_nchunks, hf_locked, hf_value, hf_handle,
                   hf_residual, hf_permit, hf_rpc, hf_rloc, hf_gstate, hf_guard,
                   hf_first, hf_swap, hf_wi, hf_wloc, hf_nswaps, hf_pre>>
    /\ UNCHANGED NotHazardFlash

\* poll: the second residual.load(); Ready with setup(false), or Pending
HazardFlashPollRecheck ==
    /\ hf_wpc = "recheck"
    /\ IF hf_residual = 0
       THEN /\ hf_parker' = "none"
            /\ hf_swap' = HfNoSwap
            /\ hf_wpc' = "idle"
       ELSE /\ hf_wpc' = "park"
            /\ UNCHANGED <<hf_parker, hf_swap>>
    /\ UNCHANGED <<hf_swap_state, hf_nchunks, hf_locked, hf_value, hf_handle,
                   hf_residual, hf_permit, hf_rpc, hf_rloc, hf_gstate, hf_guard,
                   hf_first, hf_wi, hf_wloc, hf_nswaps, hf_pre>>
    /\ UNCHANGED NotHazardFlash

\* finish_swap: while residual.load() != 0 { park() }
HazardFlashParkLoop ==
    /\ hf_wpc = "park"
    /\ IF hf_residual = 0
       THEN /\ hf_swap' = HfNoSwap
            /\ hf_wpc' = "idle"
            /\ UNCHANGED hf_permit
       ELSE /\ hf_permit' = FALSE
            /\ UNCHANGED <<hf_swap, hf_wpc>>
    /\ UNCHANGED <<hf_swap_state, hf_nchunks, hf_locked, hf_value, hf_handle,
                   hf_residual, hf_parker, hf_rpc, hf_rloc, hf_gstate, hf_guard,
                   hf_first, hf_wi, hf_wloc, hf_nswaps, hf_pre>>
    /\ UNCHANGED NotHazardFlash

HazardFlashNext ==
    \/ \E r \in Readers : HazardFlashCreateReader(r)
    \/ \E r \in Readers : HazardFlashCreateReaderChunk(r)
    \/ \E r \in Readers : HazardFlashDropReader(r)
    \/ \E r \in Readers : HazardFlashTryAcquire(r)
    \/ \E r \in Readers : HazardFlashAssertIdle(r)
    \/ \E r \in Readers : HazardFlashFetchOr(r)
    \/ \E r \in Readers : HazardFlashReleaseAnd(r)
    \/ \E r \in Readers : HazardFlashReleaseSub(r)
    \/ \E r \in Readers : HazardFlashReleaseOnDrop(r)
    \/ \E r \in Readers : HazardFlashWake(r)
    \/ HazardFlashStartSwap
    \/ HazardFlashScanNode
    \/ HazardFlashIsSwapFinished
    \/ HazardFlashPollLoad
    \/ HazardFlashPollSetup
    \/ HazardFlashPollRecheck
    \/ HazardFlashParkLoop

\* the writer is outside try_start_swap / finish_swap and its swap, if any, was
\* reported finished: Writer::split_mut hands out parts[is_swapped_writer]
HazardFlashWriterOwnsWriteCell == hf_wpc = "idle" /\ (~hf_swap.active \/ hf_swap.done)

HazardFlashWriteCell == BufGet(hf_swap_state # NOT_SWAPPED).write

\* the reader is between taking its node in acquire_read_guard and giving it
\* back in release_read_guard
HazardFlashUsesNode(r) == hf_rpc[r] \in {"assert", "or", "held", "sub", "unlock"}

\* C3: HazardFlashStrategy: a swap is reported finished (is_swap_finished
\* true, finish_swap returned) only when no reader that held a guard on the
\* now-write-side cell when the swap started still holds it.
HazardFlashFinishedOnlyAfterRelease ==
    HazardFlashWriterOwnsWriteCell =>
        \A r \in Readers :
            ~(hf_pre[r] /\ hf_guard[r].held /\ hf_guard[r].cell = HazardFlashWriteCell)

\* C9: Hazard-backed strategies: two distinct reader handles never use the
\* same hazard node at the same time.
HazardFlashNodesPrivate ==
    \A r1, r2 \in Readers :
        (r1 # r2 /\ HazardFlashUsesNode(r1) /\ HazardFlashUsesNode(r2))
            => hf_handle[r1].node # hf_handle[r2].node

\* C10: HazardFlashStrategy: the first read of a reader handle, whenever the
\* handle was created, never pins the cell the writer owns; and with no read
\* and no swap in progress no residual reader is counted.
HazardFlashFirstReadOnReadSide ==
    /\ HazardFlashWriterOwnsWriteCell =>
           \A r \in Readers :
               (hf_first[r] /\ hf_guard[r].held) => hf_guard[r].cell # HazardFlashWriteCell
    /\ (hf_wpc = "idle" /\ \A r \in Readers : hf_rpc[r] = "idle") => hf_residual = 0

\* C28: HazardFlashStrategy: from the return of try_start_swap until the swap
\* is finished, residual is the number of counted readers that have not yet
\* released: it is never negative there, and it is 0 when no reader holds a
\* guard or is releasing one.
HazardFlashResidualCountsReaders ==
    (hf_wpc = "idle" /\ hf_swap.active) =>
        /\ hf_residual >= 0
        /\ (\A r \in Readers : hf_rpc[r] = "idle") => hf_residual = 0

\* C31: Flash strategies: the writer's accesses to the park token (set and
\* clear inside poll) and a reader's access (wake) never happen at the same
\* time, and at most one reader is at wake.
HazardFlashParkTokenExclusive ==
    /\ ~((hf_wpc = "setup" \/ (hf_wpc = "recheck" /\ hf_residual = 0))
          /\ (\E r \in Readers : hf_rpc[r] = "wake"))
    /\ Cardinality({r \in Readers : hf_rpc[r] = "wake"}) <= 1

(***************************************************************************)
(* OpWriter (op.rs): a DelayWriter with a log of operations, here the      *)
(* HashTableOperation of chmap over two hash tables.  The strategy behind  *)
(* the writer is any BlockingStrategy with an infallible swap; it is       *)
(* modelled by its swap state and the guards of the readers.               *)
(***************************************************************************)
\* operations pushed in a run
OpMaxOps == 3
\* swap_buffers calls in a run
OpMaxSwaps == 3

OpKeys == {1, 3}
OpVals == {2, 4}

\* HashTable::new(): no key is present (0 stands for an absent key)
OpEmptyTable == [k \in OpKeys |-> 0]

\* what Writer::insert and Writer::remove push
OpOperations ==
    [kind : {"Insert"}, key : OpKeys, value : OpVals]
        \cup [kind : {"Remove"}, key : OpKeys, value : {0}]

OpNoGuard == [held |-> FALSE, swapped |-> FALSE, gen |-> 0]
OpNotSeen == [valid |-> FALSE, gen |-> 0, table |-> OpEmptyTable]

OpWriterInit ==
    /\ op_cells = [i \in 0..1 |-> OpEmptyTable]
    /\ op_swapped = FALSE
    /\ op_swap = FALSE
    /\ op_log = <<>>
    /\ op_water_line = 0
    /\ op_wpc = "idle"
    /\ op_guard = [r \in Readers |-> OpNoGuard]
    /\ op_seen = [r \in Readers |-> OpNotSeen]
    /\ op_pushed = <<>>
    /\ op_marks = <<>>
    /\ op_stat = <<>>
    /\ op_nswaps = 0

\* an insert that keeps the entry it finds
OpInsertKeepOld(buffer, key, value) ==
    IF buffer[key] = 0 THEN [buffer EXCEPT ![key] = value] ELSE buffer

\* HashTableOperation::Insert: overwrite the entry found, else insert_unique
OpInsert(buffer, key, value) == [buffer EXCEPT ![key] = value]

\* HashTableOperation::Remove: remove the entry if it is found
OpRemove(buffer, key) == [buffer EXCEPT ![key] = 0]

\* Operation::apply for HashTableOperation
OpApply(op, buffer) ==
    IF op.kind = "Insert"
    THEN OpInsert(buffer, op.key, op.value)
    ELSE OpRemove(buffer, op.key)

\* Operation::apply_once for HashTableOperation
OpApplyOnce(op, buffer) ==
    IF op.kind = "Insert"
    THEN OpInsert(buffer, op.key, op.value)
    ELSE OpRemove(buffer, op.key)

\* `for op in drain_unti(op_log, ..*water_line) { op.apply_once(..) }`
RECURSIVE OpDrainLoop(_, _)
OpDrainLoop(ops, buffer) ==
    IF ops = <<>> THEN buffer
    ELSE OpDrainLoop(Tail(ops), OpApplyOnce(Head(ops).op, buffer))

\* `for op in op_log.iter_mut() { op.apply(..) }`
RECURSIVE OpApplyLoop(_, _)
OpApplyLoop(ops, buffer) ==
    IF ops = <<>> THEN buffer
    ELSE OpApplyLoop(Tail(ops), OpApply(Head(ops).op, buffer))

\* OpWriter::push
OpPush(o) ==
    /\ op_wpc = "idle"
    /\ Len(op_pushed) < OpMaxOps
    /\ op_log' = Append(op_log, [id |-> Len(op_pushed) + 1, op |-> o])
    /\ op_pushed' = Append(op_pushed, o)
    /\ op_stat' = Append(op_stat, [swaps |-> 0, trace |-> <<>>])
    /\ UNCHANGED <<op_cells, op_swapped, op_swap, op_water_line, op_wpc, op_guard,
                   op_seen, op_marks, op_nswaps>>
    /\ UNCHANGED NotOp

\* OpWriter::swap_buffers, `self.writer.finish_swap()`: take the swap and
\* wait until no guard taken before it is left
OpFinishSwap ==
    /\ op_wpc = "idle"
    /\ op_nswaps < OpMaxSwaps
    /\ op_swap => \A r \in Readers :
                    ~(op_guard[r].held /\ op_guard[r].swapped # op_swapped)
    /\ op_swap' = FALSE
    /\ op_marks' = Append(op_marks, Len(op_pushed))
    /\ op_wpc' = "finished"
    /\ UNCHANGED <<op_cells, op_swapped, op_log, op_water_line, op_guard, op_seen,
                   op_pushed, op_stat, op_nswaps>>
    /\ UNCHANGED NotOp

\* fn swap_buffers: drain the operations below the water line with
\* apply_once, apply the others; SetOnDrop writes its own copy of the water
\* line back, which the drain loop has counted down
OpApplyLog ==
    /\ op_wpc = "finished"
    /\ op_water_line <= Len(op_log)
    /\ LET write == BufGet(op_swapped).write
           drained == SubSeq(op_log, 1, op_water_line)
           rest == SubSeq(op_log, op_water_line + 1, Len(op_log))
           ids(seq) == {seq[i].id : i \in 1..Len(seq)}
       IN  /\ op_cells' = [op_cells EXCEPT
                  ![write] = OpApplyLoop(rest, OpDrainLoop(drained, @))]
           /\ op_log' = rest
           /\ op_water_line' = op_water_line - Len(drained)
           /\ op_stat' = [i \in 1..Len(op_stat) |->
                  IF i \in ids(drained)
                  THEN [op_stat[i] EXCEPT !.trace =
                            Append(@, [cell |-> write, how |-> "apply_once"])]
                  ELSE IF i \in ids(rest)
                  THEN [op_stat[i] EXCEPT !.trace =
                            Append(@, [cell |-> write, how |-> "apply"])]
                  ELSE op_stat[i]]
    /\ op_wpc' = "applied"
    /\ UNCHANGED <<op_swapped, op_swap, op_guard, op_seen, op_pushed, op_marks,
                   op_nswaps>>
    /\ UNCHANGED NotOp

\* OpWriter::swap_buffers, `self.writer.start_swap()`: the swap is None
\* here, so the strategy starts one; the call returns
OpStartSwap ==
    /\ op_wpc = "applied"
    /\ op_swapped' = IF op_swap THEN op_swapped ELSE ~op_swapped
    /\ op_swap' = TRUE
    /\ op_nswaps' = op_nswaps + 1
    /\ op_stat' = [i \in 1..Len(op_stat) |->
                     [op_stat[i] EXCEPT !.swaps = @ + 1]]
    /\ op_wpc' = "idle"
    /\ UNCHANGED <<op_cells, op_log, op_water_line, op_guard, op_seen, op_pushed,
                   op_marks>>
    /\ UNCHANGED NotOp

\* Reader::try_read: acquire a guard and pick the read buffer it names
OpRead(r) ==
    /\ ~op_guard[r].held
    /\ op_guard' = [op_guard EXCEPT
           ![r] = [held |-> TRUE, swapped |-> op_swapped, gen |-> op_nswaps]]
    /\ UNCHANGED <<op_cells, op_swapped, op_swap, op_log, op_water_line, op_wpc,
                   op_seen, op_pushed, op_marks, op_stat, op_nswaps>>
    /\ UNCHANGED NotOp

\* ReaderGuard::deref: look at the table the guard points to
OpDeref(r) ==
    /\ op_guard[r].held
    /\ op_seen' = [op_seen EXCEPT
           ![r] = [valid |-> TRUE, gen |-> op_guard[r].gen,
                   table |-> op_cells[BufGet(op_guard[r].swapped).read]]]
    /\ UNCHANGED <<op_cells, op_swapped, op_swap, op_log, op_water_line, op_wpc,
                   op_guard, op_pushed, op_marks, op_stat, op_nswaps>>
    /\ UNCHANGED NotOp

\* RawReaderGuard::drop
OpDropGuard(r) ==
    /\ op_guard[r].held
    /\ op_guard' = [op_guard EXCEPT ![r] = OpNoGuard]
    /\ op_seen' = [op_seen EXCEPT ![r] = OpNotSeen]
    /\ UNCHANGED <<op_cells, op_swapped, op_swap, op_log, op_water_line, op_wpc,
                   op_pushed, op_marks, op_stat, op_nswaps>>
    /\ UNCHANGED NotOp

OpWriterNext ==
    \/ \E o \in OpOperations : OpPush(o)
    \/ OpFinishSwap
    \/ OpApplyLog
    \/ OpStartSwap
    \/ \E r \in Readers : OpRead(r)
    \/ \E r \in Readers : OpDeref(r)
    \/ \E r \in Readers : OpDropGuard(r)

\* C7: every operation that two completed swap_buffers calls have followed
\* has been applied exactly once to each cell, first via apply and then via
\* apply_once, and is no longer in op_log; hence no later swap_buffers
\* applies it a third time.
OpAppliedTwiceThenRetired ==
    \A i \in 1..Len(op_stat) :
        op_stat[i].swaps >= 2 =>
            /\ Len(op_stat[i].trace) = 2
            /\ op_stat[i].trace[1].how = "apply"
            /\ op_stat[i].trace[2].how = "apply_once"
            /\ op_stat[i].trace[1].cell # op_stat[i].trace[2].cell
            /\ \A j \in 1..Len(op_log) : op_log[j].id # i

\* C29: OpWriter: when swap_buffers returns, water_line equals op_log.len();
\* and 0 <= water_line <= op_log.len() in every state.
OpWaterLineIsLogLength ==
    /\ [](0 <= op_water_line /\ op_water_line <= Len(op_log))
    /\ [][(op_wpc = "applied" /\ op_wpc' = "idle")
             => op_water_line' = Len(op_log')]_vars

\* the operations pushed before the gen-th swap_buffers call
OpPushedBefore(gen) ==
    SubSeq(op_pushed, 1, IF gen = 0 THEN 0 ELSE op_marks[gen])

\* a table after the operations ops, one after the other
RECURSIVE OpReplay(_, _)
OpReplay(ops, table) ==
    IF ops = <<>> THEN table
    ELSE OpReplay(Tail(ops),
             [table EXCEPT ![Head(ops).key] =
                 IF Head(ops).kind = "Insert" THEN Head(ops).value ELSE 0])

\* C8: what a reader sees through a guard taken after a swap_buffers call
\* (and before the next one returns) is the empty table with every
\* operation pushed before that call applied in push order; the read buffer
\* itself shows nothing else, so later pushes stay invisible until the next
\* swap_buffers.
OpReaderSeesReplay ==
    /\ \A r \in Readers :
          op_seen[r].valid =>
              op_seen[r].table = OpReplay(OpPushedBefore(op_seen[r].gen), OpEmptyTable)
    /\ op_cells[BufGet(op_swapped).read]
           = OpReplay(OpPushedBefore(op_nswaps), OpEmptyTable)

\* C8 witness: insert(1, 2), insert(3, 4), swap_buffers, remove(1),
\* swap_buffers and a further push; a reader that read after the second call
\* sees {3: 4}
OpReaderSawSecondSwap ==
    \E r \in Readers :
        /\ op_seen[r].valid
        /\ op_seen[r].gen = 2
        /\ op_seen[r].table = [k \in OpKeys |-> IF k = 3 THEN 4 ELSE 0]
        /\ Len(op_pushed) = 3
        /\ op_pushed[1] = [kind |-> "Insert", key |-> 1, value |-> 2]
        /\ op_pushed[2] = [kind |-> "Insert", key |-> 3, value |-> 4]
        /\ op_pushed[3] = [kind |-> "Remove", key |-> 1, value |-> 0]
        /\ op_marks = <<2, 3>>

(***************************************************************************)
(* DelayWriter (delay.rs) over the EvMapStrategy, as in the test           *)
(* test_issue_1: DoubleBufferData::new(1, 2, ..) behind a DelayWriter.     *)
(* The reader steps and the steps inside try_start_swap and                *)
(* is_swap_finished are those of the EvMapStrategy above.                  *)
(***************************************************************************)
\* writes through get_writer_mut in a run
EdMaxWrites == 2

\* DoubleBufferData::new(1, 2, ..): readers start on the 1
EvMapDelayInit ==
    /\ ed_parts = (0 :> 2 @@ 1 :> 1)
    /\ ed_writes = 0
    /\ ed_shown = 1
    /\ ed_prev = 1

\* a DelayWriter that takes its stored swap as absent
DelayAlwaysNone(swap) == TRUE

\* DelayWriter::try_start_swap: `self.swap.is_none()`
DelaySwapIsNone(swap) == ~swap.active

\* DelayWriter::start_swap: a no-op while a swap is stored, else the
\* strategy's try_start_swap, which begins with flags.fetch_xor(IS_SWAPPED)
EvMapDelayStartSwap ==
    /\ ev_wpc = "idle"
    /\ IF DelaySwapIsNone(ev_swap)
       THEN /\ ev_flags' = [ev_flags EXCEPT !.swapped = ~@]
            /\ ev_wpc' = IF ev_flags.has_new THEN "merge" ELSE "retain"
            /\ ev_pre' = [r \in Readers |-> ev_rpc[r] = "held"]
            /\ ed_prev' = ed_shown
            /\ ed_shown' = ed_parts[BufGet(~ev_flags.swapped).read]
       ELSE UNCHANGED <<ev_flags, ev_wpc, ev_pre, ed_prev, ed_shown>>
    /\ UNCHANGED <<ev_epochs, ev_new, ev_current, ev_last, ev_handle, ev_rpc, ev_guard,
                   ev_swap, ev_wi, ev_hist, ed_parts, ed_writes>>
    /\ UNCHANGED NotEvMapDelay

\* `*writer.get_writer_mut().unwrap().get_mut() = v`: no swap is stored (any
\* stored swap was polled to its end by is_swap_finished), so get_writer_mut
\* is Some and get_mut is parts[is_swapped_writer]
EvMapDelayWrite ==
    /\ ev_wpc = "idle" /\ DelaySwapIsNone(ev_swap)
    /\ ed_writes < EdMaxWrites
    /\ ed_writes' = ed_writes + 1
    /\ ed_parts' = [ed_parts EXCEPT ![BufGet(ev_flags.swapped).write] = 3 + ed_writes]
    /\ UNCHANGED <<ed_shown, ed_prev>>
    /\ UNCHANGED ev_vars
    /\ UNCHANGED NotEvMapDelay

EvMapDelayNext ==
    \/ \E r \in Readers : EvMapCreateFromWriter(r)
    \/ \E r, n \in Readers : EvMapCreateFromReader(r, n)
    \/ \E r \in Readers : EvMapDropReader(r)
    \/ \E r \in Readers : EvMapAcquireAdd(r)
    \/ \E r \in Readers : EvMapAcquireLoad(r)
    \/ \E r \in Readers : EvMapRelease(r)
    \/ EvMapDelayStartSwap
    \/ EvMapMergeNew
    \/ EvMapRetain
    \/ EvMapSnapshot
    \/ EvMapIsSwapFinished
    \/ EvMapCheckEpoch
    \/ EvMapDelayWrite

\* C11: EvMap behind a DelayWriter: the read side always holds the value it
\* held when the last swap was started, and every guard, of a reader created
\* from the writer or cloned from a reader, shows that value (the value
\* before the swap for a guard taken before it); so a write through
\* get_writer_mut().get_mut(), which stores a fresh value, is seen by no
\* reader until the next swap.
EvMapDelayReadersSeePublished ==
    /\ ed_parts[BufGet(ev_flags.swapped).read] = ed_shown
    /\ \A r \in Readers :
          ev_guard[r].held =>
              ed_parts[ev_guard[r].cell] =
                  IF ev_guard[r].swapped = ev_flags.swapped THEN ed_shown ELSE ed_prev

\* C11 witness (test_issue_1): after a finished swap a reader made by the
\* writer and a reader cloned from it, not yet known to the writer, both
\* hold guards showing 2 while the writer has stored 3
EvMapDelayIssue1 ==
    /\ ev_hist.finished
    /\ ed_writes = 1
    /\ ed_parts[BufGet(ev_flags.swapped).write] = 3
    /\ \E r, n \in Readers :
          /\ \E i \in 1..Len(ev_epochs) : ev_epochs[i] = r
          /\ \E i \in 1..Len(ev_new) : ev_new[i] = n
          /\ ev_guard[r].held /\ ed_parts[ev_guard[r].cell] = 2
          /\ ev_guard[n].held /\ ed_parts[ev_guard[n].cell] = 2

(***************************************************************************)
(* EvMapStrategy's finish_swap over the parker                             *)
(* (strategy/evmap.rs 216-252, strategy/atomic/park_token.rs,              *)
(* raw/writer.rs 237-266).  release_read_guard is two steps, the           *)
(* fetch_add and parker.wake(); the writer's predicate is the loop of      *)
(* is_swap_finished, stepped by EvMapCheckEpoch.                           *)
(***************************************************************************)

\* ThreadParkToken::NEW / AsyncParkToken::new: nobody waits, no waker
EvMapParkInit ==
    /\ ep_park = "out"
    /\ ep_notified = FALSE
    /\ ep_waker = FALSE

\* the writer thread outside finish_swap: create_reader_id_from_writer
EvMapParkCreate(r) == ep_park = "out" /\ EvMapCreateFromWriter(r)

\* the writer thread outside finish_swap: try_start_swap
EvMapParkStartSwap == ep_park = "out" /\ EvMapStartSwap

\* release_read_guard: reader.epoch.current.fetch_add(1, Release)
EvMapReleaseAdd(r) ==
    /\ ev_rpc[r] = "held"
    /\ ev_current' = [ev_current EXCEPT ![r] = @ + 1]
    /\ ev_guard' = [ev_guard EXCEPT ![r] = NoGuard]
    /\ ev_rpc' = [ev_rpc EXCEPT ![r] = "wake"]
    /\ ev_pre' = [ev_pre EXCEPT ![r] = FALSE]
    /\ UNCHANGED <<ev_flags, ev_epochs, ev_new, ev_last, ev_handle,
                   ev_swap, ev_wpc, ev_wi, ev_hist>>
    /\ UNCHANGED ep_vars
    /\ UNCHANGED NotEvMapPark

\* release_read_guard: self.parker.wake() of ThreadParkToken, cv.notify_one():
\* wakes the writer if it is blocked in cv.wait, and is lost otherwise
EvMapThreadWake(r) ==
    /\ ev_rpc[r] = "wake"
    /\ ev_rpc' = [ev_rpc EXCEPT ![r] = "idle"]
    /\ ep_notified' = (ep_notified \/ ep_park = "wait")
    /\ UNCHANGED <<ev_flags, ev_epochs, ev_new, ev_current, ev_last, ev_handle, ev_guard,
                   ev_swap, ev_wpc, ev_wi, ev_pre, ev_hist>>
    /\ UNCHANGED <<ep_park, ep_waker>>
    /\ UNCHANGED NotEvMapPark

\* finish_swap: park_until locks the mutex and evaluates the predicate
EvMapFinishSwap ==
    /\ ep_park = "out"
    /\ ev_wpc = "idle" /\ ev_swap.active
    /\ ep_park' = "test"
    /\ ev_wpc' = "check"
    /\ ev_wi' = 0
    /\ UNCHANGED <<ev_flags, ev_epochs, ev_new, ev_current, ev_last, ev_handle, ev_rpc,
                   ev_guard, ev_swap, ev_pre, ev_hist>>
    /\ UNCHANGED <<ep_notified, ep_waker>>
    /\ UNCHANGED NotEvMapPark

\* park_until: the predicate was true, the loop ends and finish_swap returns
EvMapParkReturn ==
    /\ ep_park = "test"
    /\ ev_wpc = "idle" /\ ~ev_swap.active
    /\ ep_park' = "out"
    /\ UNCHANGED <<ep_notified, ep_waker>>
    /\ UNCHANGED ev_vars
    /\ UNCHANGED NotEvMapPark

\* park_until: the predicate was false, cv.wait(guard) releases the mutex and
\* blocks
EvMapParkWait ==
    /\ ep_park = "test"
    /\ ev_wpc = "idle" /\ ev_swap.active
    /\ ep_park' = "wait"
    /\ ep_notified' = FALSE
    /\ UNCHANGED ep_waker
    /\ UNCHANGED ev_vars
    /\ UNCHANGED NotEvMapPark

\* park_until: cv.wait returns after a notify and the predicate is evaluated
\* again
EvMapParkWoken ==
    /\ ep_park = "wait" /\ ep_notified
    /\ ep_park' = "test"
    /\ ep_notified' = FALSE
    /\ ev_wpc' = "check"
    /\ ev_wi' = 0
    /\ UNCHANGED <<ev_flags, ev_epochs, ev_new, ev_current, ev_last, ev_handle, ev_rpc,
                   ev_guard, ev_swap, ev_pre, ev_hist>>
    /\ UNCHANGED ep_waker
    /\ UNCHANGED NotEvMapPark

\* park_until: cv.wait returns spuriously (Condvar::wait may, and need not)
EvMapParkSpurious ==
    /\ ep_park = "wait" /\ ~ep_notified
    /\ ep_park' = "test"
    /\ ev_wpc' = "check"
    /\ ev_wi' = 0
    /\ UNCHANGED <<ev_flags, ev_epochs, ev_new, ev_current, ev_last, ev_handle, ev_rpc,
                   ev_guard, ev_swap, ev_pre, ev_hist>>
    /\ UNCHANGED <<ep_notified, ep_waker>>
    /\ UNCHANGED NotEvMapPark

EvMapParkNext ==
    \/ \E r \in Readers : EvMapParkCreate(r)
    \/ \E r \in Readers : EvMapAcquireAdd(r)
    \/ \E r \in Readers : EvMapAcquireLoad(r)
    \/ \E r \in Readers : EvMapReleaseAdd(r)
    \/ \E r \in Readers : EvMapThreadWake(r)
    \/ EvMapParkStartSwap
    \/ EvMapRetain
    \/ EvMapSnapshot
    \/ EvMapFinishSwap
    \/ EvMapCheckEpoch
    \/ EvMapParkReturn
    \/ EvMapParkWait
    \/ EvMapParkWoken
    \/ EvMapParkSpurious

\* the writer thread runs, and a reader that releases a guard runs
\* release_read_guard to its end; nothing makes a reader acquire a guard,
\* and nothing makes cv.wait return without a notify
EvMapParkFairness ==
    /\ WF_vars(EvMapRetain)
    /\ WF_vars(EvMapSnapshot)
    /\ WF_vars(EvMapCheckEpoch)
    /\ WF_vars(EvMapParkReturn)
    /\ WF_vars(EvMapParkWait)
    /\ WF_vars(EvMapParkWoken)
    /\ \A r \in Readers : WF_vars(EvMapAcquireLoad(r))
    /\ \A r \in Readers : WF_vars(EvMapReleaseAdd(r))
    /\ \A r \in Readers : WF_vars(EvMapThreadWake(r))

\* C13: EvMapStrategy with the thread parker: if every reader sooner or
\* later is outside a guard and outside release_read_guard, a writer that
\* entered finish_swap leaves it.
EvMapParkFinishReturns ==
    (\A r \in Readers : []<>(ev_rpc[r] # "held" /\ ev_rpc[r] # "wake"))
        => ((ep_park # "out") ~> (ep_park = "out"))

\* release_read_guard: self.parker.wake() of AsyncParkToken: take the waker,
\* if one is registered, and wake the task
EvMapAsyncWake(r) ==
    /\ ev_rpc[r] = "wake"
    /\ ev_rpc' = [ev_rpc EXCEPT ![r] = "idle"]
    /\ ep_waker' = FALSE
    /\ ep_park' = IF ep_waker /\ ep_park = "pending" THEN "woken" ELSE ep_park
    /\ UNCHANGED <<ev_flags, ev_epochs, ev_new, ev_current, ev_last, ev_handle, ev_guard,
                   ev_swap, ev_wpc, ev_wi, ev_pre, ev_hist>>
    /\ UNCHANGED ep_notified
    /\ UNCHANGED NotEvMapPark

\* afinish_swap awaited, or the woken task polled again: WaitForSwap::poll
\* calls strategy.is_swap_finished
EvMapWaitForSwapPoll ==
    /\ ep_park \in {"out", "woken"}
    /\ ev_wpc = "idle" /\ ev_swap.active
    /\ ep_park' = "check1"
    /\ ev_wpc' = "check"
    /\ ev_wi' = 0
    /\ UNCHANGED <<ev_flags, ev_epochs, ev_new, ev_current, ev_last, ev_handle, ev_rpc,
                   ev_guard, ev_swap, ev_pre, ev_hist>>
    /\ UNCHANGED <<ep_notified, ep_waker>>
    /\ UNCHANGED NotEvMapPark

\* WaitForSwap::poll: is_swap_finished was false, register_context calls
\* is_swap_finished again
EvMapRegisterContext ==
    /\ ep_park = "check1"
    /\ ev_wpc = "idle" /\ ev_swap.active
    /\ ep_park' = "check2"
    /\ ev_wpc' = "check"
    /\ ev_wi' = 0
    /\ UNCHANGED <<ev_flags, ev_epochs, ev_new, ev_current, ev_last, ev_handle, ev_rpc,
                   ev_guard, ev_swap, ev_pre, ev_hist>>
    /\ UNCHANGED <<ep_notified, ep_waker>>
    /\ UNCHANGED NotEvMapPark

\* register_context: is_swap_finished was false; self.parker.set(ctx) and
\* Poll::Pending
EvMapParkerSet ==
    /\ ep_park = "check2"
    /\ ev_wpc = "idle" /\ ev_swap.active
    /\ ep_waker' = TRUE
    /\ ep_park' = "pending"
    /\ UNCHANGED ep_notified
    /\ UNCHANGED ev_vars
    /\ UNCHANGED NotEvMapPark

\* WaitForSwap::poll / register_context: is_swap_finished was true, Poll::Ready
EvMapAsyncReady ==
    /\ ep_park \in {"check1", "check2"}
    /\ ev_wpc = "idle" /\ ~ev_swap.active
    /\ ep_park' = "out"
    /\ UNCHANGED <<ep_notified, ep_waker>>
    /\ UNCHANGED ev_vars
    /\ UNCHANGED NotEvMapPark

EvMapAsyncNext ==
    \/ \E r \in Readers : EvMapParkCreate(r)
    \/ \E r \in Readers : EvMapAcquireAdd(r)
    \/ \E r \in Readers : EvMapAcquireLoad(r)
    \/ \E r \in Readers : EvMapReleaseAdd(r)
    \/ \E r \in Readers : EvMapAsyncWake(r)
    \/ EvMapParkStartSwap
    \/ EvMapRetain
    \/ EvMapSnapshot
    \/ EvMapWaitForSwapPoll
    \/ EvMapCheckEpoch
    \/ EvMapRegisterContext
    \/ EvMapParkerSet
    \/ EvMapAsyncReady

\* the writer's task runs when it is polled or woken, and a reader that
\* releases a guard runs release_read_guard to its end; nothing makes a
\* reader acquire a guard, and a pending task is polled only after a wake
EvMapAsyncFairness ==
    /\ WF_vars(EvMapRetain)
    /\ WF_vars(EvMapSnapshot)
    /\ WF_vars(EvMapCheckEpoch)
    /\ WF_vars(EvMapWaitForSwapPoll)
    /\ WF_vars(EvMapRegisterContext)
    /\ WF_vars(EvMapParkerSet)
    /\ WF_vars(EvMapAsyncReady)
    /\ \A r \in Readers : WF_vars(EvMapAcquireLoad(r))
    /\ \A r \in Readers : WF_vars(EvMapReleaseAdd(r))
    /\ \A r \in Readers : WF_vars(EvMapAsyncWake(r))

\* C14: EvMapStrategy with the async parker: if every reader sooner or later
\* is outside a guard and outside release_read_guard, an afinish_swap
\* future that was polled resolves.
EvMapAsyncResolves ==
    (\A r \in Readers : []<>(ev_rpc[r] # "held" /\ ev_rpc[r] # "wake"))
        => ((ep_park # "out") ~> (ep_park = "out"))

(***************************************************************************)
(* DelayWriter over FlashStrategy (delay.rs, strategy/flashmap.rs).  The   *)
(* stored swap is fl_swap; the readers and the steps of finish_swap are    *)
(* the actions of FlashStrategy.                                           *)
(***************************************************************************)
\* calls of start_swap are capped
FdMaxStarts == 3

FdNotCalled == [called |-> FALSE, some |-> FALSE, stored |-> FALSE, pinned |-> FALSE]

\* DelayWriter::from_writer: swap: None
FlashDelayInit ==
    /\ fd_starts = 0
    /\ fd_quiet = FALSE
    /\ fd_got = FdNotCalled
    /\ fd_cancelled = FALSE

\* DelayWriter::try_start_swap / start_swap: a no-op while a swap is stored,
\* else the strategy's try_start_swap up to the lock of the readers
FlashDelayStartSwap ==
    /\ fl_wpc = "idle"
    /\ fd_starts < FdMaxStarts
    /\ fd_starts' = fd_starts + 1
    /\ IF DelaySwapIsNone(fl_swap)
       THEN /\ fl_nswaps' = fl_nswaps + 1
            /\ fl_swap_state' = XorSwapped(fl_swap_state)
            /\ fl_wloc' = [FlNoLocals EXCEPT !.old = fl_swap_state]
            /\ fl_wpc' = "scan"
            /\ fl_wi' = 1
            /\ fl_pre' = [r \in Readers |-> fl_rpc[r] = "held"]
            /\ fl_obs' = [res |-> "none", pre_held |-> FALSE, busy |-> FALSE]
            /\ fd_quiet' = \A r \in Readers : fl_rpc[r] = "idle"
            /\ fd_cancelled' = FALSE
       ELSE UNCHANGED <<fl_nswaps, fl_swap_state, fl_wloc, fl_wpc, fl_wi, fl_pre, fl_obs,
                        fd_quiet, fd_cancelled>>
    /\ UNCHANGED <<fl_readers, fl_word, fl_handle, fl_residual, fl_parker, fl_permit,
                   fl_rpc, fl_rloc, fl_guard, fl_swap>>
    /\ UNCHANGED fd_got
    /\ UNCHANGED NotFlashDelay

\* DelayWriter::get_writer_mut: is_swap_finished (no swap stored, or the
\* strategy's is_swap_finished on the stored swap, which is cleared on
\* true), then Some(&mut writer) if it returned true and None otherwise
FlashDelayGetWriterMut ==
    /\ fl_wpc = "idle"
    /\ LET b == IF DelaySwapIsNone(fl_swap)
                THEN TRUE
                ELSE fl_residual = FlashExpectedResidual(fl_swap)
           after == IF b THEN FlNoSwap ELSE fl_swap
       IN /\ fl_swap' = after
          /\ fd_got' = [called |-> TRUE,
                        some |-> b,
                        stored |-> after.active,
                        pinned |-> \E r \in Readers :
                                      /\ fl_pre[r] /\ fl_guard[r].held
                                      /\ fl_guard[r].cell =
                                            BufGet(FlashIsSwapped(fl_swap_state)).write]
    /\ UNCHANGED <<fl_swap_state, fl_readers, fl_word, fl_handle, fl_residual,
                   fl_parker, fl_permit, fl_rpc, fl_rloc, fl_guard, fl_wpc, fl_wi,
                   fl_wloc, fl_nswaps, fl_pre, fl_obs>>
    /\ UNCHANGED <<fd_starts, fd_quiet, fd_cancelled>>
    /\ UNCHANGED NotFlashDelay

FlashDelayNext ==
    \/ \E n \in Readers : FlashCreateReader(n)
    \/ \E r \in Readers : FlashAcquireLoad(r)
    \/ \E r \in Readers : FlashAcquireStore(r)
    \/ \E r \in Readers : FlashReleaseXor(r)
    \/ \E r \in Readers : FlashReleaseLoad(r)
    \/ \E r \in Readers : FlashReleaseSub(r)
    \/ \E r \in Readers : FlashWake(r)
    \/ FlashDelayStartSwap
    \/ FlashScanReader
    \/ FlashDelayGetWriterMut
    \/ FlashPollLoad
    \/ FlashPollReady
    \/ FlashPollSetup
    \/ FlashPollAdd
    \/ FlashParkLoop

\* C37: FlashStrategy: whenever no swap is outstanding (the last one was
\* completed by finish_swap or by is_swap_finished returning true and the
\* Swap being discarded) and every reader is idle, residual is 0.
FlashResidualZeroAtRest ==
    (fl_wpc = "idle" /\ ~fl_swap.active /\ \A r \in Readers : fl_rpc[r] = "idle")
        => fl_residual = 0

\* C15: Flash: finish_swap on a swap that was started while no reader held a
\* guard (every reader idle) returns without parking; and once
\* is_swap_finished returned true for the stored swap (get_writer_mut gave
\* Some) the writer is not inside finish_swap.
FlashDelayQuietNeverParks ==
    /\ (fl_wpc = "park" /\ fl_residual # 0) => ~fd_quiet
    /\ (fd_got.some /\ ~fl_swap.active) => fl_wpc \in {"idle", "scan"}

\* C18: DelayWriter: get_writer_mut returns Some exactly when no swap is
\* stored after its is_swap_finished, and when it returns Some no guard
\* acquired before the swap pins the write-side cell.
FlashDelayMutUnpinned ==
    fd_got.called =>
        /\ fd_got.some <=> ~fd_got.stored
        /\ fd_got.some => ~fd_got.pinned

\* C19: DelayWriter: a start_swap called while a swap is stored leaves the
\* strategy, the stored swap and the orientation of the buffers as they
\* were, so that start_swap twice is start_swap once.
FlashDelayStartIdempotent ==
    [][(fd_starts' # fd_starts /\ fl_swap.active) => UNCHANGED fl_vars]_vars

\* C19 witness: three calls of start_swap, the later two with the swap of
\* the first still stored, have started one swap
FlashDelayStartedOnce ==
    /\ fd_starts = 3
    /\ fl_nswaps = 1
    /\ fl_swap.active
    /\ FlashIsSwapped(fl_swap_state)

(***************************************************************************)
(* Writer::swap (raw/writer.rs 110-143): try_start_swap followed by        *)
(* finish_swap, on a buffer over FlashStrategy and on a buffer over        *)
(* EvMapStrategy, called while every reader is idle; and Writer::split /   *)
(* split_mut (64-104).                                                     *)
(***************************************************************************)
Strategies == {"flash", "evmap"}

\* values the writer stores through split_mut
SwVals == {1, 2, 3}

\* Writer::split: is_swapped_writer, buffers.get(swapped), and the values
\* behind the two pointers
SwSplitOf(swapped, parts) ==
    [swapped |-> swapped,
     read |-> BufGet(swapped).read, write |-> BufGet(swapped).write,
     rv |-> parts[BufGet(swapped).read], wv |-> parts[BufGet(swapped).write]]

\* is_swapped_writer of the buffer's strategy
SwIsSwapped ==
    IF sw_strategy = "flash" THEN FlashIsSwapped(fl_swap_state) ELSE ev_flags.swapped

SwSplit == SwSplitOf(SwIsSwapped, sw_parts)

\* DoubleBufferData::new(1, 2, ..): the readers start on parts[1]
SwapInit ==
    /\ sw_strategy = "none"
    /\ sw_parts = (0 :> 2 @@ 1 :> 1)
    /\ sw_run = 0
    /\ sw_base = SwSplitOf(FALSE, (0 :> 2 @@ 1 :> 1))
    /\ sw_blocked = FALSE

\* DoubleBufferData::with_strategy: the buffer is built over one strategy
SwWithStrategy(s) ==
    /\ sw_strategy = "none"
    /\ sw_strategy' = s
    /\ UNCHANGED <<sw_parts, sw_run, sw_base, sw_blocked>>
    /\ UNCHANGED <<fl_vars, ev_vars>>
    /\ UNCHANGED NotSwap

\* the swap() calls in a row, and what split() gave before the first of them
SwCount ==
    /\ sw_run' = IF sw_run = 2 THEN 1 ELSE sw_run + 1
    /\ sw_base' = IF sw_run = 2 THEN SwSplit ELSE sw_base

\* Writer::swap over FlashStrategy: try_start_swap (toggle, retain and count
\* the residual readers), then finish_swap (poll; Ready adds swap.residual
\* back, Pending parks)
FlashWriterSwap ==
    /\ sw_strategy = "flash"
    /\ fl_wpc = "idle" /\ ~fl_swap.active
    /\ \A r \in Readers : fl_rpc[r] = "idle"
    /\ LET old == fl_swap_state
           kept == SelectSeq(fl_readers, LAMBDA r : fl_handle[r] # "dropped")
           gone == {r \in Readers : fl_handle[r] = "dropped"}
           count == Cardinality({i \in 1..Len(kept) : FlashIsResidual(fl_word[kept[i]], old)})
           swap == [active |-> TRUE, residual |-> count, done |-> FALSE]
           ready == fl_residual = FlashExpectedResidual(swap)
       IN /\ fl_swap_state' = XorSwapped(old)
          /\ fl_readers' = kept
          /\ fl_handle' = [r \in Readers |-> IF r \in gone THEN "none" ELSE fl_handle[r]]
          /\ fl_word' = [r \in Readers |-> IF r \in gone THEN 0 ELSE fl_word[r]]
          /\ fl_residual' = fl_residual + count
          /\ fl_parker' = IF ready THEN fl_parker ELSE "set"
          /\ fl_wpc' = IF ready THEN "idle" ELSE "park"
          /\ fl_swap' = IF ready THEN FlNoSwap ELSE [swap EXCEPT !.residual = 0]
          /\ sw_blocked' = ~ready
    /\ SwCount
    /\ UNCHANGED <<fl_permit, fl_rpc, fl_rloc, fl_guard, fl_wi, fl_wloc, fl_nswaps, fl_pre,
                   fl_obs>>
    /\ UNCHANGED <<sw_strategy, sw_parts>>
    /\ UNCHANGED ev_vars
    /\ UNCHANGED NotSwap

\* Writer::swap over EvMapStrategy: try_start_swap (toggle, merge the new
\* epochs, retain, snapshot), then finish_swap (park_until is_swap_finished)
EvMapWriterSwap ==
    /\ sw_strategy = "evmap"
    /\ ev_wpc = "idle" /\ ~ev_swap.active
    /\ \A r \in Readers : ev_rpc[r] = "idle"
    /\ LET merged == IF ev_flags.has_new THEN ev_epochs \o ev_new ELSE ev_epochs
           kept == SelectSeq(merged, LAMBDA r : ev_handle[r] # "dropped")
           gone == {merged[i] : i \in 1..Len(merged)} \ {kept[i] : i \in 1..Len(kept)}
           last == [r \in Readers |->
                       IF r \in gone THEN 0
                       ELSE IF r \in {kept[i] : i \in 1..Len(kept)} THEN ev_current[r]
                       ELSE ev_last[r]]
           finished == \A i \in 1..Len(kept) :
                           \/ EvMapNotReading(last[kept[i]])
                           \/ ~EvMapStillReading(ev_current[kept[i]], last[kept[i]])
       IN /\ ev_flags' = [swapped |-> ~ev_flags.swapped, has_new |-> FALSE]
          /\ ev_epochs' = kept
          /\ ev_new' = IF ev_flags.has_new THEN <<>> ELSE ev_new
          /\ ev_handle' = [r \in Readers |-> IF r \in gone THEN "none" ELSE ev_handle[r]]
          /\ ev_current' = [r \in Readers |-> IF r \in gone THEN 0 ELSE ev_current[r]]
          /\ ev_last' = last
          /\ ev_swap' = IF finished THEN EvNoSwap
                        ELSE [active |-> TRUE, start |-> 0, end |-> Len(kept)]
          /\ sw_blocked' = ~finished
    /\ SwCount
    /\ UNCHANGED <<ev_rpc, ev_guard, ev_wpc, ev_wi, ev_pre, ev_hist>>
    /\ UNCHANGED <<sw_strategy, sw_parts>>
    /\ UNCHANGED fl_vars
    /\ UNCHANGED NotSwap

\* Writer::split_mut / get_mut: store a value in the write cell
SwWrite(v) ==
    /\ sw_strategy # "none" /\ ~sw_blocked
    /\ sw_parts[BufGet(SwIsSwapped).write] # v
    /\ LET parts == [sw_parts EXCEPT ![BufGet(SwIsSwapped).write] = v]
       IN /\ sw_parts' = parts
          /\ sw_base' = SwSplitOf(SwIsSwapped, parts)
    /\ sw_run' = 0
    /\ UNCHANGED <<sw_strategy, sw_blocked>>
    /\ UNCHANGED <<fl_vars, ev_vars>>
    /\ UNCHANGED NotSwap

\* the readers are those of the buffer's strategy
SwapNext ==
    \/ \E s \in Strategies : SwWithStrategy(s)
    \/ sw_strategy = "flash" /\ \E n \in Readers : FlashCreateReader(n)
    \/ sw_strategy = "flash" /\ \E r \in Readers : FlashAcquireLoad(r)
    \/ sw_strategy = "flash" /\ \E r \in Readers : FlashAcquireStore(r)
    \/ sw_strategy = "flash" /\ \E r \in Readers : FlashReleaseXor(r)
    \/ sw_strategy = "flash" /\ \E r \in Readers : FlashReleaseLoad(r)
    \/ sw_strategy = "evmap" /\ \E r \in Readers : EvMapCreateFromWriter(r)
    \/ sw_strategy = "evmap" /\ \E r \in Readers : EvMapAcquireAdd(r)
    \/ sw_strategy = "evmap" /\ \E r \in Readers : EvMapAcquireLoad(r)
    \/ sw_strategy = "evmap" /\ \E r \in Readers : EvMapRelease(r)
    \/ FlashWriterSwap
    \/ EvMapWriterSwap
    \/ \E v \in SwVals : SwWrite(v)

\* split() with the two cells exchanged
SwExchanged(b) ==
    [swapped |-> ~b.swapped, read |-> b.write, write |-> b.read, rv |-> b.wv, wv |-> b.rv]

FlashWaitForSwapPoll ==
    /\ \/ fl_wpc = "idle" /\ fl_swap.active
       \/ fl_wpc = "park" /\ fl_permit
    /\ fl_permit' = FALSE
    /\ IF fl_residual = FlashExpectedResidual(fl_swap)
       THEN fl_swap' = FlNoSwap /\ fl_wpc' = "idle"
       ELSE fl_wpc' = "regctx" /\ UNCHANGED fl_swap
    /\ UNCHANGED <<fl_swap_state, fl_readers, fl_word, fl_handle, fl_residual,
                   fl_parker, fl_rpc, fl_rloc, fl_guard, fl_wi, fl_wloc, fl_nswaps,
                   fl_pre, fl_obs>>
    /\ UNCHANGED fd_vars
    /\ UNCHANGED NotFlashDelay

\* register_context, in poll: residual.load() == swap.expected_residual()
FlashRegisterContext ==
    /\ fl_wpc = "regctx"
    /\ IF fl_residual = FlashExpectedResidual(fl_swap)
       THEN IF fl_swap.residual # 0
            THEN fl_wpc' = "ready" /\ UNCHANGED fl_swap
            ELSE fl_wpc' = "idle" /\ fl_swap' = FlNoSwap
       ELSE fl_wpc' = "setup" /\ UNCHANGED fl_swap
    /\ UNCHANGED <<fl_swap_state, fl_readers, fl_word, fl_handle, fl_residual,
                   fl_parker, fl_permit, fl_rpc, fl_rloc, fl_guard, fl_wi, fl_wloc,
                   fl_nswaps, fl_pre, fl_obs>>
    /\ UNCHANGED fd_vars
    /\ UNCHANGED NotFlashDelay

\* the pending afinish_swap future is dropped: the swap stays stored
FlashDelayDropFuture ==
    /\ fl_wpc = "park"
    /\ fl_wpc' = "idle"
    /\ fd_cancelled' = TRUE
    /\ UNCHANGED <<fl_swap_state, fl_readers, fl_word, fl_handle, fl_residual,
                   fl_parker, fl_permit, fl_rpc, fl_rloc, fl_guard, fl_swap, fl_wi,
                   fl_wloc, fl_nswaps, fl_pre, fl_obs>>
    /\ UNCHANGED <<fd_starts, fd_quiet, fd_got>>
    /\ UNCHANGED NotFlashDelay

FlashDelayAsyncNext ==
    \/ \E n \in Readers : FlashCreateReader(n)
    \/ \E r \in Readers : FlashAcquireLoad(r)
    \/ \E r \in Readers : FlashAcquireStore(r)
    \/ \E r \in Readers : FlashReleaseXor(r)
    \/ \E r \in Readers : FlashReleaseLoad(r)
    \/ \E r \in Readers : FlashReleaseSub(r)
    \/ \E r \in Readers : FlashWake(r)
    \/ FlashDelayStartSwap
    \/ FlashScanReader
    \/ FlashDelayGetWriterMut
    \/ FlashWaitForSwapPoll
    \/ FlashRegisterContext
    \/ FlashPollReady
    \/ FlashPollSetup
    \/ FlashPollAdd
    \/ FlashDelayDropFuture

\* C20: DelayWriter::afinish_swap over an async Flash: after a pending
\* future was dropped the swap stays stored, and it is cleared (by a later
\* afinish_swap, or by get_writer_mut handing out the writer) only when no
\* guard acquired before the swap still pins the write-side cell.
FlashDelayCancelSafe ==
    fd_cancelled =>
        /\ fl_wpc = "idle" => (fl_swap.active \/ \A r \in Readers :
              ~(fl_pre[r] /\ fl_guard[r].held
                /\ fl_guard[r].cell = BufGet(FlashIsSwapped(fl_swap_state)).write))
        /\ fd_got.some /\ ~fl_swap.active => ~fd_got.pinned

(***************************************************************************)
(* OpWriter::aswap_buffers (op.rs 61-70): afinish_swap is awaited before   *)
(* the log is touched; the future can be dropped at that await.            *)
(***************************************************************************)
\* aswap_buffers futures dropped are capped
OcMaxCancels == 1

OpAsyncInit == oc_cancels = 0

\* an awaited swap that is ready at once
OpNeverPending == FALSE

\* DelayWriter::afinish_swap: a swap is stored and a guard taken before it
\* is still held, so the awaited future is Pending
OpSwapPending ==
    op_swap /\ \E r \in Readers : op_guard[r].held /\ op_guard[r].swapped # op_swapped

\* OpWriter::aswap_buffers polled: `self.writer.afinish_swap().await` is
\* Pending, or it is Ready and the swap is cleared
OpAFinishSwap ==
    /\ op_wpc \in {"idle", "pending"}
    /\ op_nswaps < OpMaxSwaps
    /\ IF OpSwapPending
       THEN /\ op_wpc' = "pending"
            /\ UNCHANGED <<op_swap, op_marks>>
       ELSE /\ op_swap' = FALSE
            /\ op_marks' = Append(op_marks, Len(op_pushed))
            /\ op_wpc' = "finished"
    /\ UNCHANGED <<op_cells, op_swapped, op_log, op_water_line, op_guard, op_seen,
                   op_pushed, op_stat, op_nswaps>>
    /\ UNCHANGED oc_cancels
    /\ UNCHANGED NotOpAsync

\* the aswap_buffers future is dropped at its await
OpDropFuture ==
    /\ op_wpc = "pending"
    /\ oc_cancels < OcMaxCancels
    /\ oc_cancels' = oc_cancels + 1
    /\ op_wpc' = "idle"
    /\ UNCHANGED <<op_cells, op_swapped, op_swap, op_log, op_water_line, op_guard,
                   op_seen, op_pushed, op_marks, op_stat, op_nswaps>>
    /\ UNCHANGED NotOpAsync

OpAsyncNext ==
    \/ \E o \in OpOperations : OpPush(o)
    \/ OpFinishSwap
    \/ OpAFinishSwap
    \/ OpDropFuture
    \/ OpApplyLog
    \/ OpStartSwap
    \/ \E r \in Readers : OpRead(r)
    \/ \E r \in Readers : OpDeref(r)
    \/ \E r \in Readers : OpDropGuard(r)

\* C21: OpWriter::aswap_buffers: dropping the future while it awaits the
\* previous swap leaves op_log, water_line, both cells and the record of
\* applied operations unchanged; and whatever calls were dropped, a reader
\* sees the operations pushed before the completed swap calls, each applied
\* in push order, as without them.
OpCancelLeavesNoTrace ==
    /\ [][oc_cancels' # oc_cancels =>
            UNCHANGED <<op_cells, op_log, op_water_line, op_stat, op_swapped, op_swap>>]_vars
    /\ []OpReaderSeesReplay

\* C21 witness: an aswap_buffers future was dropped with operations in the
\* log, a later call completed, and a reader looked at the table after it
OpCancelledThenSwapped ==
    /\ oc_cancels = 1
    /\ op_nswaps = 2
    /\ Len(op_pushed) >= 2
    /\ op_marks[2] = Len(op_pushed)
    /\ \E r \in Readers : op_seen[r].valid /\ op_seen[r].gen = 2

(***************************************************************************)
(* The Hazard pool on its own (strategy/hazad_flash/hazard.rs): threads    *)
(* that take guards with get_or_insert_with, give them back with release   *)
(* and take them again with try_acquire, as the pool's own tests do.  The  *)
(* atomics are taken to be sequentially consistent.                        *)
(***************************************************************************)
\* Hazard<T, N>: nodes per chunk of the pool
HzN == 2

\* chunks allocated are capped
HzMaxChunks == 3

HzThreads == 1..3
HzChunks == 1..HzMaxChunks
HzNodes == 1..(HzMaxChunks * HzN)
HzNoGuard == [node |-> 0, tag |-> FALSE]

HzChunkOf(n) == ((n - 1) \div HzN) + 1
HzFirstNode(c) == (c - 1) * HzN + 1

HazardInit ==
    /\ hz_head = 0
    /\ hz_next = [c \in HzChunks |-> 0]
    /\ hz_nalloc = 0
    /\ hz_locked = [n \in HzNodes |-> FALSE]
    /\ hz_guard = [t \in HzThreads |-> HzNoGuard]
    /\ hz_pc = [t \in HzThreads |-> "idle"]
    /\ hz_cur = [t \in HzThreads |-> 0]
    /\ hz_chunk = [t \in HzThreads |-> 0]
    /\ hz_prev = [t \in HzThreads |-> 0]
    /\ hz_inserted = {}
    /\ hz_raced = FALSE

\* a compare-exchange that locks whatever it finds
HazardLockAlways(is_locked) == TRUE

\* is_locked.compare_exchange(false, true): succeeds on an unlocked node
HazardLockSucceeds(is_locked) == ~is_locked

\* a compare-exchange on head that never compares
HazardHeadAlways(head, prev) == TRUE

\* fetch_update: compare_exchange_weak(prev, next) on head
HazardHeadSucceeds(head, prev) == head = prev

\* HazardChunkIter::next / Flatten: the node after n in list order
HazardIterNext(n) ==
    IF n % HzN # 0 THEN n + 1
    ELSE IF hz_next[HzChunkOf(n)] = 0 THEN 0
         ELSE HzFirstNode(hz_next[HzChunkOf(n)])

\* chunks(): the chunks from c on, following next
RECURSIVE HazardChunksFrom(_, _, _)
HazardChunksFrom(c, next, fuel) ==
    IF c = 0 \/ fuel = 0 THEN <<>>
    ELSE <<c>> \o HazardChunksFrom(next[c], next, fuel - 1)

\* iter(): the nodes the iterator yields, from head on
HazardIter ==
    LET cs == HazardChunksFrom(hz_head, hz_next, HzMaxChunks)
    IN [k \in 1..(Len(cs) * HzN) |->
           HzFirstNode(cs[((k - 1) \div HzN) + 1]) + ((k - 1) % HzN)]

\* get_or_insert_with: self.nodes(Acquire) loads head
HazardGetOrInsertWith(t) ==
    /\ hz_pc[t] = "idle" /\ hz_guard[t].node = 0
    /\ hz_cur' = [hz_cur EXCEPT ![t] = IF hz_head = 0 THEN 0 ELSE HzFirstNode(hz_head)]
    /\ hz_pc' = [hz_pc EXCEPT ![t] = "scan"]
    /\ UNCHANGED <<hz_head, hz_next, hz_nalloc, hz_locked, hz_guard, hz_chunk, hz_prev,
                   hz_inserted, hz_raced>>
    /\ UNCHANGED NotHazard

\* get_or_insert_with, find_map on one node: compare_exchange_weak(false,
\* true), which may also fail on an unlocked node
HazardFindMap(t) ==
    /\ hz_pc[t] = "scan" /\ hz_cur[t] # 0
    /\ \/ /\ HazardLockSucceeds(hz_locked[hz_cur[t]])
          /\ hz_locked' = [hz_locked EXCEPT ![hz_cur[t]] = TRUE]
          /\ hz_guard' = [hz_guard EXCEPT ![t] = [node |-> hz_cur[t], tag |-> FALSE]]
          /\ hz_pc' = [hz_pc EXCEPT ![t] = "idle"]
          /\ hz_cur' = [hz_cur EXCEPT ![t] = 0]
       \/ /\ hz_cur' = [hz_cur EXCEPT ![t] = HazardIterNext(hz_cur[t])]
          /\ UNCHANGED <<hz_locked, hz_guard, hz_pc>>
    /\ UNCHANGED <<hz_head, hz_next, hz_nalloc, hz_chunk, hz_prev, hz_inserted, hz_raced>>
    /\ UNCHANGED NotHazard

\* insert_with up to fetch_update: allocate a chunk, next null, every node
\* unlocked but the first; fetch_update loads head
HazardInsertWith(t) ==
    /\ hz_pc[t] = "scan" /\ hz_cur[t] = 0
    /\ hz_nalloc < HzMaxChunks
    /\ LET c == hz_nalloc + 1
       IN /\ hz_nalloc' = c
          /\ hz_chunk' = [hz_chunk EXCEPT ![t] = c]
          /\ hz_locked' = [n \in HzNodes |->
                 IF HzChunkOf(n) = c THEN n = HzFirstNode(c) ELSE hz_locked[n]]
          /\ hz_next' = [hz_next EXCEPT ![c] = 0]
    /\ hz_prev' = [hz_prev EXCEPT ![t] = hz_head]
    /\ hz_pc' = [hz_pc EXCEPT ![t] = "update"]
    /\ UNCHANGED <<hz_head, hz_guard, hz_cur, hz_inserted, hz_raced>>
    /\ UNCHANGED NotHazard

\* insert_with, one round of fetch_update: the closure sets chunk.next to
\* prev, then compare_exchange_weak(prev, chunk); on failure prev is the
\* head found
HazardFetchUpdate(t) ==
    /\ hz_pc[t] = "update"
    /\ hz_next' = [hz_next EXCEPT ![hz_chunk[t]] = hz_prev[t]]
    /\ IF HazardHeadSucceeds(hz_head, hz_prev[t])
       THEN /\ hz_head' = hz_chunk[t]
            /\ hz_guard' = [hz_guard EXCEPT ![t] =
                   [node |-> HzFirstNode(hz_chunk[t]), tag |-> FALSE]]
            /\ hz_inserted' = hz_inserted \cup {hz_chunk[t]}
            /\ hz_pc' = [hz_pc EXCEPT ![t] = "idle"]
            /\ hz_chunk' = [hz_chunk EXCEPT ![t] = 0]
            /\ hz_prev' = [hz_prev EXCEPT ![t] = 0]
            /\ UNCHANGED hz_raced
       ELSE /\ hz_prev' = [hz_prev EXCEPT ![t] = hz_head]
            /\ hz_raced' = TRUE
            /\ UNCHANGED <<hz_head, hz_guard, hz_inserted, hz_pc, hz_chunk>>
    /\ UNCHANGED <<hz_nalloc, hz_locked, hz_cur>>
    /\ UNCHANGED NotHazard

\* RawHazardGuard::try_acquire on a released guard: compare_exchange(false,
\* true), the tag cleared on success
HazardTryAcquire(t) ==
    /\ hz_pc[t] = "idle" /\ hz_guard[t].node # 0 /\ hz_guard[t].tag
    /\ IF HazardLockSucceeds(hz_locked[hz_guard[t].node])
       THEN /\ hz_locked' = [hz_locked EXCEPT ![hz_guard[t].node] = TRUE]
            /\ hz_guard' = [hz_guard EXCEPT ![t].tag = FALSE]
       ELSE UNCHANGED <<hz_locked, hz_guard>>
    /\ UNCHANGED <<hz_head, hz_next, hz_nalloc, hz_pc, hz_cur, hz_chunk, hz_prev,
                   hz_inserted, hz_raced>>
    /\ UNCHANGED NotHazard

\* a handle taken to hold its node whatever its tag says
HazardTagIgnored(tag) == TRUE

\* release_if_locked: `addr(self.node).get() & 1` is 0, the handle holds
\* its node
HazardTagClear(tag) == ~tag

\* RawHazardGuard::release_if_locked: release (is_locked.store(false), the
\* tag set) if the tag says the guard holds its node, else nothing
HazardRelease(t) ==
    /\ hz_pc[t] = "idle" /\ hz_guard[t].node # 0
    /\ IF HazardTagClear(hz_guard[t].tag)
       THEN /\ hz_locked' = [hz_locked EXCEPT ![hz_guard[t].node] = FALSE]
            /\ hz_guard' = [hz_guard EXCEPT ![t].tag = TRUE]
       ELSE UNCHANGED <<hz_locked, hz_guard>>
    /\ UNCHANGED <<hz_head, hz_next, hz_nalloc, hz_pc, hz_cur, hz_chunk, hz_prev,
                   hz_inserted, hz_raced>>
    /\ UNCHANGED NotHazard

\* a released guard goes out of scope: RawHazardGuard has no Drop, its node
\* stays as it is
HazardForgetGuard(t) ==
    /\ hz_pc[t] = "idle" /\ hz_guard[t].node # 0 /\ hz_guard[t].tag
    /\ hz_guard' = [hz_guard EXCEPT ![t] = HzNoGuard]
    /\ UNCHANGED <<hz_head, hz_next, hz_nalloc, hz_locked, hz_pc, hz_cur, hz_chunk,
                   hz_prev, hz_inserted, hz_raced>>
    /\ UNCHANGED NotHazard

HazardNext ==
    \/ \E t \in HzThreads : HazardGetOrInsertWith(t)
    \/ \E t \in HzThreads : HazardFindMap(t)
    \/ \E t \in HzThreads : HazardInsertWith(t)
    \/ \E t \in HzThreads : HazardFetchUpdate(t)
    \/ \E t \in HzThreads : HazardTryAcquire(t)
    \/ \E t \in HzThreads : HazardRelease(t)
    \/ \E t \in HzThreads : HazardForgetGuard(t)

\* the guard of the thread holds its node: it has one and its tag is clear
HazardHolds(t) == hz_guard[t].node # 0 /\ ~hz_guard[t].tag

\* C22: Hazard pool: under every interleaving of get_or_insert_with,
\* try_acquire and release, guards that are held at the same time never refer
\* to the same node, and the node of a held guard is locked.
HazardGuardsExclusive ==
    /\ \A t1, t2 \in HzThreads :
           (t1 # t2 /\ HazardHolds(t1) /\ HazardHolds(t2))
               => hz_guard[t1].node # hz_guard[t2].node
    /\ \A t \in HzThreads : HazardHolds(t) => hz_locked[hz_guard[t].node]

\* C22 witness: two threads hold guards on the two nodes of one chunk while a
\* third, released, guard refers to the node one of them holds
HazardNodeReused ==
    \E t1, t2, t3 \in HzThreads :
        /\ HazardHolds(t1) /\ HazardHolds(t2)
        /\ hz_guard[t1].node # hz_guard[t2].node
        /\ HzChunkOf(hz_guard[t1].node) = HzChunkOf(hz_guard[t2].node)
        /\ hz_guard[t3].tag /\ hz_guard[t3].node = hz_guard[t1].node

HzSet(seq) == {seq[k] : k \in 1..Len(seq)}

HzIsSuffix(s, t) == Len(s) <= Len(t) /\ \A k \in 1..Len(s) : s[k] = t[Len(t) - Len(s) + k]

\* C23: Hazard pool: the chunk list only grows (the list after a step ends
\* with the list before it), every chunk whose insert returned is reachable
\* from head, and iter() yields every node of every inserted chunk, once.
HazardListOnlyGrows ==
    /\ [](/\ hz_inserted = HzSet(HazardChunksFrom(hz_head, hz_next, HzMaxChunks))
          /\ HzSet(HazardIter) = {n \in HzNodes : HzChunkOf(n) \in hz_inserted}
          /\ Len(HazardIter) = Cardinality(hz_inserted) * HzN)
    /\ [][LET before == HazardChunksFrom(hz_head, hz_next, HzMaxChunks)
              after == HazardChunksFrom(hz_head', hz_next', HzMaxChunks)
          IN HzIsSuffix(before, after)]_vars

\* C23 witness: three chunks are in the list and a compare-exchange on head
\* lost a race on the way
HazardRacedInserts == hz_raced /\ Cardinality(hz_inserted) = 3 /\ Len(HazardIter) = 3 * HzN

\* C35: RawHazardGuard: the tag bit of a handle is set exactly when the handle
\* does not hold its node's lock (a locked node is held by exactly one handle
\* with a clear tag, or is the first node of a chunk whose insert has not
\* returned); try_acquire on a released handle succeeds only on an unlocked
\* node, which it locks, clearing the tag; release_if_locked on a released
\* handle changes nothing.
HazardTagIsNotHolding ==
    /\ [](\A n \in HzNodes :
            hz_locked[n] <=>
                \/ Cardinality({t \in HzThreads : HazardHolds(t) /\ hz_guard[t].node = n}) = 1
                \/ \E t \in HzThreads : hz_pc[t] = "update" /\ n = HzFirstNode(hz_chunk[t]))
    /\ [][\A t \in HzThreads :
            LET g == hz_guard[t]
            IN (g.node # 0 /\ g.tag /\ hz_guard'[t] # HzNoGuard) =>
                 \/ hz_guard'[t] = g
                 \/ /\ hz_guard'[t] = [g EXCEPT !.tag = FALSE]
                    /\ ~hz_locked[g.node] /\ hz_locked'[g.node]]_vars

\* C35 witness: two released handles refer to the node that a third handle
\* holds
HazardStaleHandles ==
    \E t1, t2, t3 \in HzThreads :
        /\ t2 # t3 /\ HazardHolds(t1)
        /\ hz_guard[t2].tag /\ hz_guard[t2].node = hz_guard[t1].node
        /\ hz_guard[t3].tag /\ hz_guard[t3].node = hz_guard[t1].node

(***************************************************************************)
(* Leaked read guards (mem::forget of a ReaderGuard) over FlashStrategy    *)
(* and EvMapStrategy: the readers and the writer of the two strategies,    *)
(* with readers that leak the guard they hold and read again.              *)
(***************************************************************************)
\* panics of acquire_read_guard are capped
LkMaxPanics == 1

LeakInit ==
    /\ lk_strategy = "none"
    /\ lk_out = [r \in Readers |-> 0]
    /\ lk_panics = 0

\* the strategy the readers were built over
LeakWithStrategy(s) ==
    /\ lk_strategy = "none"
    /\ lk_strategy' = s
    /\ UNCHANGED <<lk_out, lk_panics>>
    /\ UNCHANGED NotLeak

\* mem::forget(ReaderGuard) over FlashStrategy: release_read_guard never
\* runs, the guard goes on borrowing its cell
FlashLeakGuard(r) ==
    /\ lk_strategy = "flash"
    /\ fl_rpc[r] = "held"
    /\ fl_rpc' = [fl_rpc EXCEPT ![r] = "leaked"]
    /\ lk_out' = [lk_out EXCEPT ![r] = 1]
    /\ UNCHANGED <<fl_swap_state, fl_readers, fl_word, fl_handle, fl_residual, fl_parker,
                   fl_permit, fl_rloc, fl_guard, fl_swap, fl_wpc, fl_wi, fl_wloc,
                   fl_nswaps, fl_pre, fl_obs>>
    /\ UNCHANGED <<lk_strategy, lk_panics>>
    /\ UNCHANGED NotLeakFlash

\* FlashStrategy::acquire_read_guard on a reader id that leaked its guard:
\* swap_state.load(), assert_eq!(reader_id.load() & READER_ACTIVE, 0), and
\* past the assertion the store and the new guard
FlashAcquireLeaked(r) ==
    /\ lk_strategy = "flash"
    /\ fl_rpc[r] = "leaked"
    /\ lk_panics < LkMaxPanics
    /\ IF IsActive(fl_word[r])
       THEN /\ lk_panics' = lk_panics + 1
            /\ UNCHANGED <<fl_word, fl_guard, lk_out>>
       ELSE /\ fl_word' = [fl_word EXCEPT ![r] = OrActive(fl_swap_state)]
            /\ fl_guard' = [fl_guard EXCEPT ![r] =
                   [held |-> TRUE, swapped |-> FlashIsSwapped(fl_swap_state),
                    cell |-> BufGet(FlashIsSwapped(fl_swap_state)).read]]
            /\ lk_out' = [lk_out EXCEPT ![r] = @ + 1]
            /\ UNCHANGED lk_panics
    /\ UNCHANGED <<fl_swap_state, fl_readers, fl_handle, fl_residual, fl_parker,
                   fl_permit, fl_rpc, fl_rloc, fl_swap, fl_wpc, fl_wi, fl_wloc,
                   fl_nswaps, fl_pre, fl_obs>>
    /\ UNCHANGED lk_strategy
    /\ UNCHANGED NotLeakFlash

\* mem::forget(ReaderGuard) over EvMapStrategy
EvMapLeakGuard(r) ==
    /\ lk_strategy = "evmap"
    /\ ev_rpc[r] = "held"
    /\ ev_rpc' = [ev_rpc EXCEPT ![r] = "leaked"]
    /\ lk_out' = [lk_out EXCEPT ![r] = 1]
    /\ UNCHANGED <<ev_flags, ev_epochs, ev_new, ev_current, ev_last, ev_handle, ev_guard,
                   ev_swap, ev_wpc, ev_wi, ev_pre, ev_hist>>
    /\ UNCHANGED <<lk_strategy, lk_panics>>
    /\ UNCHANGED NotLeakEvMap

\* EvMapStrategy::acquire_read_guard on a reader id that leaked its guard:
\* read_failed() if current is odd, else current.fetch_add(1) and the new
\* guard
EvMapAcquireLeaked(r) ==
    /\ lk_strategy = "evmap"
    /\ ev_rpc[r] = "leaked"
    /\ lk_panics < LkMaxPanics
    /\ IF ev_current[r] % 2 # 0
       THEN /\ lk_panics' = lk_panics + 1
            /\ UNCHANGED <<ev_current, ev_guard, lk_out>>
       ELSE /\ ev_current' = [ev_current EXCEPT ![r] = @ + 1]
            /\ ev_guard' = [ev_guard EXCEPT ![r] =
                   [held |-> TRUE, swapped |-> ev_flags.swapped,
                    cell |-> BufGet(ev_flags.swapped).read]]
            /\ lk_out' = [lk_out EXCEPT ![r] = @ + 1]
            /\ UNCHANGED lk_panics
    /\ UNCHANGED <<ev_flags, ev_epochs, ev_new, ev_last, ev_handle, ev_rpc,
                   ev_swap, ev_wpc, ev_wi, ev_pre, ev_hist>>
    /\ UNCHANGED lk_strategy
    /\ UNCHANGED NotLeakEvMap

LeakNext ==
    \/ \E s \in {"flash", "evmap"} : LeakWithStrategy(s)
    \/ lk_strategy = "flash" /\ FlashNext
    \/ \E r \in Readers : FlashLeakGuard(r)
    \/ \E r \in Readers : FlashAcquireLeaked(r)
    \/ lk_strategy = "evmap" /\ EvMapNext
    \/ \E r \in Readers : EvMapLeakGuard(r)
    \/ \E r \in Readers : EvMapAcquireLeaked(r)

\* C24: Flash and EvMap: acquire_read_guard on a reader id whose guard was
\* leaked panics; the panicking call changes neither the slot of any reader
\* nor the global parity nor residual, and no reader id ever has two
\* outstanding guards.
LeakedAcquirePanics ==
    /\ [](\A r \in Readers : lk_out[r] <= 1)
    /\ [][lk_panics' # lk_panics
             => UNCHANGED <<fl_word, fl_swap_state, fl_residual, fl_guard,
                            ev_current, ev_flags, ev_guard>>]_vars

\* C24 witness: over Flash a reader leaked its guard, a swap was started and
\* counted it, and the next read of the reader panicked
LeakedThenPanicked ==
    /\ lk_strategy = "flash" /\ lk_panics = 1
    /\ fl_swap.active /\ fl_swap.residual >= 1
    /\ \E r \in Readers : fl_rpc[r] = "leaked" /\ lk_out[r] = 1 /\ fl_guard[r].held

(***************************************************************************)
(* AtomicStrategy with the successful try_start_swap calls counted.        *)
(***************************************************************************)
\* try_start_swap calls are capped
AcMaxStarts == 3

AtomicCountInit == ac_starts = 0

\* try_start_swap: next_swap = !is_swapped_writer(); Ok(next_swap), counted
AtomicTryStartSwapOk ==
    /\ at_wpc = "idle" /\ ~at_swap.active
    /\ ac_starts < AcMaxStarts
    /\ at_swap' = [active |-> TRUE, next |-> ~at_which]
    /\ ac_starts' = ac_starts + 1
    /\ UNCHANGED <<at_which, at_num_readers, at_wpc, at_rpc, at_rloc, at_guard, at_hist>>
    /\ UNCHANGED NotAtomicCount

\* is_swapped_writer: read `which`
AtomicIsSwappedWriter == at_which

AtomicCountNext ==
    \/ AtomicTryStartSwapOk
    \/ AtomicLockReaders
    \/ AtomicStoreWhich
    \/ AtomicUnlockReaders
    \/ \E r \in Readers : AtomicLoadWhich(r)
    \/ \E r \in Readers : AtomicLoadCount(r)
    \/ \E r \in Readers : AtomicLoopStep(r)
    \/ \E r \in Readers : AtomicRecheck(r)
    \/ \E r \in Readers : AtomicUndo(r)
    \/ \E r \in Readers : AtomicIsSwapped(r)
    \/ \E r \in Readers : AtomicRelease(r)

\* C25: AtomicStrategy: whenever the writer can call it (it is not inside
\* is_swap_finished), is_swapped_writer is true if and only if the number of
\* successful try_start_swap calls so far is odd.
AtomicSwappedIffOddStarts ==
    at_wpc = "idle" => (AtomicIsSwappedWriter <=> ac_starts % 2 = 1)

(***************************************************************************)
(* Reader::try_read over the Arc / Weak pointers of ext/std_arc.rs: the    *)
(* writer holds an Arc, every reader a Weak, every ReaderGuard the Arc its *)
(* try_read upgraded.  Arc and Weak are modelled by their strong count;    *)
(* the strategy by the parity of its swaps and a counter per reader id     *)
(* that acquire_read_guard and release_read_guard increment.               *)
(***************************************************************************)
\* try_read calls of a reader are capped
WkMaxCalls == 3

WeakInit ==
    /\ wk_strong = 1
    /\ wk_writer = TRUE
    /\ wk_swapped = FALSE
    /\ wk_epoch = [r \in Readers |-> 0]
    /\ wk_rpc = [r \in Readers |-> "idle"]
    /\ wk_last = [r \in Readers |-> "none"]
    /\ wk_calls = [r \in Readers |-> 0]

\* a try_read that goes on to acquire_read_guard whatever try_writer returned
TryReadGoesOnAlways(upgraded) == TRUE

\* Reader::try_read: `self.ptr.try_writer()?` goes on only with Ok
TryReadGoesOn(upgraded) == upgraded

\* Weak::try_writer: self.upgrade().ok_or(ArcUpgradeError); upgrade is Some
\* while an Arc is left
WeakTryWriter(strong) == strong > 0

\* Reader::try_read: try_writer()?, acquire_read_guard, is_swapped, the
\* guard with the upgraded Arc in it
WeakTryRead(r) ==
    /\ wk_rpc[r] = "idle" /\ wk_calls[r] < WkMaxCalls
    /\ wk_calls' = [wk_calls EXCEPT ![r] = @ + 1]
    /\ wk_strong' = IF WeakTryWriter(wk_strong) THEN wk_strong + 1 ELSE wk_strong
    /\ wk_epoch' = IF TryReadGoesOn(WeakTryWriter(wk_strong))
                   THEN [wk_epoch EXCEPT ![r] = @ + 1] ELSE wk_epoch
    /\ IF WeakTryWriter(wk_strong)
       THEN /\ wk_rpc' = [wk_rpc EXCEPT ![r] = "held"]
            /\ wk_last' = [wk_last EXCEPT ![r] = "ok"]
       ELSE /\ wk_last' = [wk_last EXCEPT ![r] = "err"]
            /\ UNCHANGED wk_rpc
    /\ UNCHANGED <<wk_writer, wk_swapped>>
    /\ UNCHANGED NotWeak

\* drop(ReaderGuard): release_read_guard, then the upgraded Arc is dropped
WeakDropGuard(r) ==
    /\ wk_rpc[r] = "held"
    /\ wk_epoch' = [wk_epoch EXCEPT ![r] = @ + 1]
    /\ wk_strong' = wk_strong - 1
    /\ wk_rpc' = [wk_rpc EXCEPT ![r] = "idle"]
    /\ UNCHANGED <<wk_writer, wk_swapped, wk_last, wk_calls>>
    /\ UNCHANGED NotWeak

\* Writer::try_swap with no guard out: the strategy toggles its parity
WeakSwap ==
    /\ wk_writer /\ \A r \in Readers : wk_rpc[r] = "idle"
    /\ wk_swapped' = ~wk_swapped
    /\ UNCHANGED <<wk_strong, wk_writer, wk_epoch, wk_rpc, wk_last, wk_calls>>
    /\ UNCHANGED NotWeak

\* drop(Writer): its Arc is dropped
WeakDropWriter ==
    /\ wk_writer
    /\ wk_writer' = FALSE
    /\ wk_strong' = wk_strong - 1
    /\ UNCHANGED <<wk_swapped, wk_epoch, wk_rpc, wk_last, wk_calls>>
    /\ UNCHANGED NotWeak

WeakNext ==
    \/ \E r \in Readers : WeakTryRead(r)
    \/ \E r \in Readers : WeakDropGuard(r)
    \/ WeakSwap
    \/ WeakDropWriter

\* C26: Reader::try_read with a weak pointer: a handle whose try_read
\* returned Err never gets Ok from a later try_read, and a try_read that
\* returns Err leaves the strategy state (the reader's counter, the parity)
\* and the strong count as they were.
WeakErrIsFinal ==
    /\ [][\A r \in Readers : wk_last[r] = "err" => wk_last'[r] = "err"]_vars
    /\ [][\A r \in Readers :
             (wk_calls'[r] # wk_calls[r] /\ wk_last'[r] = "err")
                 => UNCHANGED <<wk_epoch, wk_swapped, wk_strong, wk_rpc>>]_vars

\* C26 witness: a reader read with success, the writer was dropped while
\* the other reader held a guard, and after that guard was dropped the first
\* reader's try_read failed twice
WeakFailedTwice ==
    \E r, o \in Readers :
        /\ r # o /\ ~wk_writer /\ wk_swapped
        /\ wk_calls[r] = 3 /\ wk_last[r] = "err" /\ wk_epoch[r] = 2
        /\ wk_last[o] = "ok" /\ wk_rpc[o] = "idle"

(***************************************************************************)
(* FlashStrategy, try_start_swap called again before the previous swap was *)
(* finished (interface.rs: "it is safe to call try_start_swap as many      *)
(* times as the user wants, and only the last swap matters";               *)
(* flashmap/test.rs test_double_swap)                                      *)
(***************************************************************************)

DsMaxCalls == 2

FlashDoubleInit ==
    /\ ds_calls = 0
    /\ ds_first = NOT_SWAPPED
    /\ ds_old = {}

\* try_start_swap, up to the lock of the reader list, called with no swap
\* outstanding
FlashFirstStartSwap ==
    /\ fl_wpc = "idle" /\ ~fl_swap.active
    /\ fl_nswaps < FlMaxSwaps
    /\ fl_nswaps' = fl_nswaps + 1
    /\ fl_swap_state' = XorSwapped(fl_swap_state)
    /\ fl_wloc' = [FlNoLocals EXCEPT !.old = fl_swap_state]
    /\ fl_wpc' = "scan"
    /\ fl_wi' = 1
    /\ fl_pre' = [r \in Readers |-> fl_rpc[r] = "held"]
    /\ fl_obs' = [res |-> "none", pre_held |-> FALSE, busy |-> FALSE]
    /\ ds_calls' = 1
    /\ ds_first' = fl_swap_state
    /\ ds_old' = {r \in Readers : fl_rpc[r] = "held"}
    /\ UNCHANGED <<fl_readers, fl_word, fl_handle, fl_residual, fl_parker, fl_permit,
                   fl_rpc, fl_rloc, fl_guard, fl_swap>>
    /\ UNCHANGED NotDouble

\* try_start_swap called while the Swap of the previous call is still
\* unfinished: that Swap is dropped, the new call toggles swap_state again
FlashStartSwapAgain ==
    /\ fl_wpc = "idle" /\ fl_swap.active
    /\ ds_calls \in 1..(DsMaxCalls - 1)
    /\ fl_nswaps < FlMaxSwaps
    /\ fl_nswaps' = fl_nswaps + 1
    /\ fl_swap_state' = XorSwapped(fl_swap_state)
    /\ fl_wloc' = [FlNoLocals EXCEPT !.old = fl_swap_state]
    /\ fl_wpc' = "scan"
    /\ fl_wi' = 1
    /\ fl_swap' = FlNoSwap
    /\ fl_pre' = [r \in Readers |-> fl_rpc[r] = "held"]
    /\ fl_obs' = [res |-> "none", pre_held |-> FALSE, busy |-> FALSE]
    /\ ds_calls' = ds_calls + 1
    /\ ds_old' = {r \in ds_old : fl_rpc[r] = "held"
                        /\ fl_guard[r].swapped = FlashIsSwapped(ds_first)}
    /\ UNCHANGED <<fl_readers, fl_word, fl_handle, fl_residual, fl_parker, fl_permit,
                   fl_rpc, fl_rloc, fl_guard, ds_first>>
    /\ UNCHANGED NotDouble

FlashDoubleNext ==
    \/ \E n \in Readers : FlashCreateReader(n)
    \/ \E r \in Readers : FlashDropReader(r)
    \/ \E r \in Readers : FlashAcquireLoad(r)
    \/ \E r \in Readers : FlashAcquireStore(r)
    \/ \E r \in Readers : FlashReleaseXor(r)
    \/ \E r \in Readers : FlashReleaseLoad(r)
    \/ \E r \in Readers : FlashReleaseSub(r)
    \/ \E r \in Readers : FlashWake(r)
    \/ FlashFirstStartSwap
    \/ FlashStartSwapAgain
    \/ FlashScanReader
    \/ FlashPollLoad
    \/ FlashPollReady
    \/ FlashPollSetup
    \/ FlashPollAdd
    \/ FlashParkLoop

\* C32: FlashStrategy: after try_start_swap was called twice without finishing
\* the first swap, for a reader that holds a guard from before both calls: the
\* orientation is the original one, the guard's cell is the read-side cell
\* again, and finishing the last swap does not wait: a writer in the park loop
\* of finish_swap, with every other reader idle, finds residual = 0.
FlashOnlyLastSwapMatters ==
    \A r \in ds_old :
        (ds_calls = 2 /\ fl_rpc[r] = "held") =>
            /\ fl_swap_state = ds_first
            /\ fl_guard[r].cell = BufGet(FlashIsSwapped(fl_swap_state)).read
            /\ (/\ fl_wpc = "park"
                /\ \A q \in Readers : fl_rpc[q] \in {"idle", "held"}
                /\ \A q \in Readers \ ds_old : fl_rpc[q] = "idle")
               => fl_residual = 0

(***************************************************************************)
(* The Hazard pool used from one thread (hazard.rs test_basic,             *)
(* test_reuse_and_chunk_count): several handles, and no call on one handle *)
(* begins before the call on another has returned.                         *)
(***************************************************************************)
\* no call on another handle is under way
HazardSeqTurn(t) == \A u \in HzThreads \ {t} : hz_pc[u] = "idle"

HazardSeqNext ==
    \/ \E t \in HzThreads : HazardSeqTurn(t) /\ HazardGetOrInsertWith(t)
    \/ \E t \in HzThreads : HazardSeqTurn(t) /\ HazardFindMap(t)
    \/ \E t \in HzThreads : HazardSeqTurn(t) /\ HazardInsertWith(t)
    \/ \E t \in HzThreads : HazardSeqTurn(t) /\ HazardFetchUpdate(t)
    \/ \E t \in HzThreads : HazardSeqTurn(t) /\ HazardTryAcquire(t)
    \/ \E t \in HzThreads : HazardSeqTurn(t) /\ HazardRelease(t)
    \/ \E t \in HzThreads : HazardSeqTurn(t) /\ HazardForgetGuard(t)

AtomicParkInit == ap_parked = FALSE

\* finish_swap, in park_until: one call of the closure, is_swap_finished's
\* compare_exchange(0, u64::MAX) on num_readers[next_swap]; on false the
\* writer blocks in cv.wait
AtomicParkUntil ==
    /\ at_wpc = "idle" /\ at_swap.active /\ ~ap_parked
    /\ LET i == Idx(at_swap.next)
       IN IF at_num_readers[i] = 0
          THEN /\ at_num_readers' = [at_num_readers EXCEPT ![i] = U64_MAX]
               /\ at_wpc' = "locked"
               /\ UNCHANGED <<at_hist, ap_parked>>
          ELSE /\ at_hist' = [at_hist EXCEPT !.refused = TRUE]
               /\ ap_parked' = TRUE
               /\ UNCHANGED <<at_num_readers, at_wpc>>
    /\ UNCHANGED <<at_which, at_swap, at_rpc, at_rloc, at_guard>>
    /\ UNCHANGED NotAtomicPark

\* Condvar::wait returns without a notification (a spurious wakeup), and the
\* loop of park_until calls the closure again
AtomicSpuriousWakeup ==
    /\ ap_parked
    /\ ap_parked' = FALSE
    /\ UNCHANGED at_vars
    /\ UNCHANGED NotAtomicPark

AtomicParkNext ==
    \/ AtomicTryStartSwap
    \/ AtomicParkUntil
    \/ AtomicSpuriousWakeup
    \/ AtomicStoreWhich
    \/ AtomicUnlockReaders
    \/ \E r \in Readers : AtomicLoadWhich(r)
    \/ \E r \in Readers : AtomicLoadCount(r)
    \/ \E r \in Readers : AtomicLoopStep(r)
    \/ \E r \in Readers : AtomicRecheck(r)
    \/ \E r \in Readers : AtomicUndo(r)
    \/ \E r \in Readers : AtomicIsSwapped(r)
    \/ \E r \in Readers : AtomicRelease(r)

\* every thread that can run does: the writer's steps, each step inside
\* acquire_read_guard, and the drop of every guard.  A spurious wakeup of
\* Condvar::wait is allowed but never promised.
AtomicParkFairness ==
    /\ WF_vars(AtomicParkUntil)
    /\ WF_vars(AtomicStoreWhich)
    /\ WF_vars(AtomicUnlockReaders)
    /\ \A r \in Readers :
          /\ WF_vars(AtomicLoadCount(r))
          /\ WF_vars(AtomicLoopStep(r))
          /\ WF_vars(AtomicRecheck(r))
          /\ WF_vars(AtomicUndo(r))
          /\ WF_vars(AtomicRelease(r))

\* C38: AtomicStrategy: a blocking finish_swap that found readers on the
\* target cell and went to sleep is woken after those readers have released
\* their guards, and re-checks is_swap_finished.
AtomicParkedWriterWoken == ap_parked ~> ~ap_parked

(***************************************************************************)
(* vec_drain::drain_unti (vec_drain.rs) as swap_buffers uses it (op.rs):   *)
(* the buffer of the vector cell by cell, Drain's pointers as indices      *)
(***************************************************************************)
\* lengths of the vectors tried
DrMaxLen == 3

\* the values of the elements
DrValues == 1..3

DrVecs == UNION {[1..l -> DrValues] : l \in 0..DrMaxLen}

\* the vector as its owner sees it: the first len cells of the buffer
DrainVec == SubSeq(dr_mem, 1, dr_len)

DrainInit ==
    /\ dr_pc = "none"
    /\ dr_mem = <<>>
    /\ dr_len = 0
    /\ dr_ptr = 0
    /\ dr_end = 0
    /\ dr_old_len = 0
    /\ dr_copy = 0
    /\ dr_out = <<>>
    /\ dr_orig = <<>>
    /\ dr_n = 0

\* a drop that keeps one element too few
DrainRemainingShort(old_len, ptr) == old_len - ptr

\* Drain::drop: range_end.offset_from(self.ptr), with range_end =
\* range_start.add(old_len)
DrainRemaining(old_len, ptr) == (old_len + 1) - ptr

\* swap_buffers: the copy of water_line in SetOnDrop, and
\* drain_unti(op_log, ..*water_line): `&vec[n]` panics if n is out of range,
\* else old_len = vec.len(), vec.set_len(n.end), ptr and end from
\* as_mut_ptr_range()
DrainUnti(v, n) ==
    /\ dr_pc = "none"
    /\ dr_orig' = v
    /\ dr_n' = n
    /\ dr_mem' = v
    /\ dr_out' = <<>>
    /\ IF n > Len(v)
       THEN /\ dr_pc' = "panicked"
            /\ dr_len' = Len(v)
            /\ UNCHANGED <<dr_ptr, dr_end, dr_old_len, dr_copy>>
       ELSE /\ dr_pc' = "iter"
            /\ dr_copy' = n
            /\ dr_old_len' = Len(v)
            /\ dr_len' = n
            /\ dr_ptr' = 1
            /\ dr_end' = n + 1
    /\ UNCHANGED NotDrain

\* one turn of swap_buffers' for loop: Drain::next reads *ptr and advances
\* ptr, and the body counts the copy of the water line down
DrainNextItem ==
    /\ dr_pc = "iter"
    /\ dr_ptr # dr_end
    /\ dr_out' = Append(dr_out, dr_mem[dr_ptr])
    /\ dr_ptr' = dr_ptr + 1
    /\ dr_copy' = dr_copy - 1
    /\ UNCHANGED <<dr_pc, dr_mem, dr_len, dr_end, dr_old_len, dr_orig, dr_n>>
    /\ UNCHANGED NotDrain

\* Drain::drop, at the end of the loop or when its body unwinds:
\* ptr.copy_to(range_start, remaining); vec.set_len(remaining)
DrainDrop ==
    /\ dr_pc = "iter"
    /\ LET remaining == DrainRemaining(dr_old_len, dr_ptr)
       IN /\ dr_mem' = [i \in 1..Len(dr_mem) |->
                 IF i <= remaining THEN dr_mem[dr_ptr + i - 1] ELSE dr_mem[i]]
          /\ dr_len' = remaining
    /\ dr_pc' = "dropped"
    /\ UNCHANGED <<dr_ptr, dr_end, dr_old_len, dr_copy, dr_out, dr_orig, dr_n>>
    /\ UNCHANGED NotDrain

DrainNext ==
    \/ \E v \in DrVecs : \E n \in 0..DrMaxLen : DrainUnti(v, n)
    \/ DrainNextItem
    \/ DrainDrop

\* C40: vec_drain::drain_unti(vec, ..n): the items yielded are the original
\* elements from index 0 on, in order, at most n of them, and all n if the
\* iterator is run to its end; when the Drain is dropped after k items the
\* vector holds the original elements from index k on, in order; and
\* swap_buffers' copy of the water line is n minus the items yielded, the
\* number of elements from below the water line still in the vector.
DrainYieldsPrefixKeepsRest ==
    dr_pc \in {"iter", "dropped"} =>
        LET k == Len(dr_out)
        IN /\ k <= dr_n
           /\ dr_out = SubSeq(dr_orig, 1, k)
           /\ (dr_pc = "iter" /\ dr_ptr = dr_end) => k = dr_n
           /\ dr_copy = dr_n - k
           /\ dr_pc = "dropped" =>
                 /\ DrainVec = SubSeq(dr_orig, k + 1, Len(dr_orig))
                 /\ dr_copy <= Len(DrainVec)

\* C40 witness: a Drain over the first two of three different elements was
\* dropped after one item
DrainDroppedEarly ==
    /\ dr_pc = "dropped" /\ dr_orig = <<1, 2, 3>> /\ dr_n = 2
    /\ dr_out = <<1>> /\ DrainVec = <<2, 3>>

(***************************************************************************)
(* Specifications                                                          *)
(***************************************************************************)
Init ==
    /\ SimpleInit
    /\ AtomicInit
    /\ EvMapInit
    /\ FlashInit
    /\ HazardFlashInit
    /\ OpWriterInit
    /\ EvMapDelayInit
    /\ EvMapParkInit
    /\ FlashDelayInit
    /\ SwapInit
    /\ OpAsyncInit
    /\ HazardInit
    /\ LeakInit
    /\ AtomicCountInit
    /\ WeakInit
    /\ FlashDoubleInit
    /\ AtomicParkInit
    /\ DrainInit

SpecSimple == Init /\ [][SimpleNext]_vars

SpecAtomic == Init /\ [][AtomicNext]_vars

SpecEvMap == Init /\ [][EvMapNext]_vars

SpecFlash == Init /\ [][FlashNext]_vars

SpecHazardFlash == Init /\ [][HazardFlashNext]_vars

SpecOpWriter == Init /\ [][OpWriterNext]_vars

SpecEvMapDelay == Init /\ [][EvMapDelayNext]_vars

SpecEvMapPark == Init /\ [][EvMapParkNext]_vars

SpecEvMapParkFair == SpecEvMapPark /\ EvMapParkFairness

SpecEvMapAsync == Init /\ [][EvMapAsyncNext]_vars

SpecEvMapAsyncFair == SpecEvMapAsync /\ EvMapAsyncFairness

SpecFlashDelay == Init /\ [][FlashDelayNext]_vars

SpecSwap == Init /\ [][SwapNext]_vars

SpecFlashDelayAsync == Init /\ [][FlashDelayAsyncNext]_vars

SpecOpAsync == Init /\ [][OpAsyncNext]_vars

SpecHazard == Init /\ [][HazardNext]_vars

SpecLeak == Init /\ [][LeakNext]_vars

SpecAtomicCount == Init /\ [][AtomicCountNext]_vars

SpecWeak == Init /\ [][WeakNext]_vars

SpecFlashFair == SpecFlash /\ FlashFairness

SpecFlashDouble == Init /\ [][FlashDoubleNext]_vars

SpecHazardSeq == Init /\ [][HazardSeqNext]_vars

SpecAtomicPark == Init /\ [][AtomicParkNext]_vars

SpecAtomicParkFair == SpecAtomicPark /\ AtomicParkFairness

SpecDrain == Init /\ [][DrainNext]_vars

====
